---------------------------- MODULE Spec2Model ----------------------------
(***************************************************************************)
(* State-machine model of the pausable foveal environment wrapper          *)
(* (atari_cr/pauseable_env.py, PauseableFixedFovealEnv) and of the EMMA    *)
(* saccade-time function it uses (common/utils.py).                        *)
(*                                                                         *)
(* Numbers.  The code computes with float64.  The model keeps every        *)
(* quantity in exact fixed point:                                          *)
(*   - angles in centi-degrees (1e-2 degree),                              *)
(*   - times in units of 1e-4 s,                                           *)
(*   - saccade_cost_scale in units of 1e-3,                                *)
(*   - rewards as a record [pen, fx] standing for                          *)
(*         pen * MASKED_ACTION_PENTALTY + fx * 1e-7,                       *)
(*     because the penalty constant (-1e9) and a saccade cost (~1e-5) do   *)
(*     not fit one 32-bit fixed-point integer.                             *)
(* Images are ObsSize x ObsSize integer arrays, arr[i][j], 0-based.        *)
(***************************************************************************)
EXTENDS Integers, Sequences, FiniteSets, TLC

(***************************************************************************)
(* Bounds of the model                                                     *)
(***************************************************************************)
\* side length of the (square) observation, env.obs_size = (ObsSize, ObsSize)
ObsSize == 3
\* side length of the (square) fovea, args.fov_size = (FovSize, FovSize)
FovSize == 2
\* consecutive_pause_limit is drawn from 0..MaxLimit
MaxLimit == 1
\* steps of one episode followed where every sensory action is tried
FoveaSteps == 2
\* number of motor actions of the base environment, env.action_space.n
NumActions == 2

\* capacity of the PVM buffer, pvm_stack
PvmStack == 2
\* learn(n) is called with n in 1..MaxBudget
MaxBudget == 3
\* agent processes started one after the other on the same model directory
MaxRuns == 2

\* steps of one episode the model follows: enough for a run of pauses to
\* pass the largest limit
MaxSteps == MaxLimit + 3

(***************************************************************************)
(* Program constants                                                       *)
(***************************************************************************)
\* one reward unit (1.0) in fx units of 1e-7
RewardUnit == 10^7
\* pause_cost = 0.01 (constructor default), in fx units of 1e-7
pause_cost == 100000
\* the reward MASKED_ACTION_PENTALTY: one penalty, no fixed-point part
MASKED_ACTION_PENTALTY == [pen |-> 1, fx |-> 0]
\* VISUAL_DEGREE_SCREEN_SIZE = (44.6, 28.5) degrees, in centi-degrees
VISUAL_DEGREE_SCREEN_SIZE == <<4460, 2850>>

\* EMMA_fixation_time's default parameters
EMMA_K == 60                \* K = 0.006 s
EMMA_k == 400               \* k = 0.4, scale 1000
EMMA_execution_time == 700  \* 0.07 s
EMMA_saccade_scaling == 20  \* 0.002 s per degree
EMMA_t_prep == 1350         \* 0.135 s
EMMA_neg_log_freq == 2303   \* -ln(freq) = -ln(0.1) = 2.302585, scale 1000
\* the scale of fixed-point factors
FxScale == 10^3

(***************************************************************************)
(* Arithmetic helpers                                                      *)
(***************************************************************************)
Max(a, b) == IF a >= b THEN a ELSE b
Min(a, b) == IF a <= b THEN a ELSE b

\* np.clip(x, lo, hi) on one component: minimum(maximum(x, lo), hi).  With
\* lo > hi the result is hi, as in numpy.
Clip(x, lo, hi) == Min(Max(x, lo), hi)

\* a * b / FxScale without an intermediate above 32 bits
MulFx(a, b) == (a \div FxScale) * b + ((a % FxScale) * b) \div FxScale

\* floor of the square root
RECURSIVE SqrtSearch(_, _, _)
SqrtSearch(n, lo, hi) ==
    IF lo >= hi THEN lo
    ELSE LET mid == (lo + hi + 1) \div 2
         IN  IF mid * mid <= n THEN SqrtSearch(n, mid, hi)
             ELSE SqrtSearch(n, lo, mid - 1)
ISqrt(n) == SqrtSearch(n, 0, 46340)

\* e^(f/1000) for 0 <= f < 1000, scale 1000: the Taylor series
RECURSIVE ExpTaylor(_, _, _, _)
ExpTaylor(f, term, i, acc) ==
    IF term = 0 \/ i > 12 THEN acc
    ELSE LET next == (term * f) \div (FxScale * i)
         IN  ExpTaylor(f, next, i + 1, acc + next)

\* e^n for a natural n, scale 1000
RECURSIVE ExpInt(_)
ExpInt(n) == IF n = 0 THEN FxScale ELSE MulFx(ExpInt(n - 1), 2718)

\* np.exp(x) for x >= 0 in scale 1000, result in scale 1000
ExpFx(x) == MulFx(ExpInt(x \div FxScale), ExpTaylor(x % FxScale, FxScale, 1, FxScale))

(***************************************************************************)
(* EMMA_fixation_time (common/utils.py): `dist` in centi-degrees; returns  *)
(* the total time (1e-4 s) and whether the eye moved.                      *)
(***************************************************************************)
\* np.exp held at e^13, which this scale can still carry: from there on the
\* quotient t_sacc / t_enc of EMMA_fixation_time rounds to zero either way
ExpHeld(x) == ExpFx(Min(x, 13 * FxScale))

\* mutant of EMMA_fixation_time: the remaining encoding time is scaled by K
EMMA_fixation_time_K(dist) ==
    LET t_enc  == MulFx(ExpHeld((EMMA_k * dist) \div 100),
                        (EMMA_K * EMMA_neg_log_freq) \div FxScale)
        t_exec == EMMA_execution_time + (EMMA_saccade_scaling * dist) \div 100
        t_sacc == EMMA_t_prep + t_exec
        e_new  == (EMMA_K * EMMA_neg_log_freq) \div FxScale
        t_enc_new == ((FxScale - (t_sacc * FxScale) \div t_enc) * e_new) \div FxScale
    IN  IF t_enc < EMMA_t_prep THEN [total |-> t_enc, moved |-> FALSE]
        ELSE IF t_enc <= t_sacc THEN [total |-> t_sacc, moved |-> TRUE]
        ELSE [total |-> t_sacc + t_enc_new, moved |-> TRUE]

EMMA_fixation_time(dist) ==
    LET t_enc  == MulFx(ExpHeld((EMMA_k * dist) \div 100),
                        (EMMA_K * EMMA_neg_log_freq) \div FxScale)
        t_exec == EMMA_execution_time + (EMMA_saccade_scaling * dist) \div 100
        t_sacc == EMMA_t_prep + t_exec
        e_new  == (EMMA_k * EMMA_neg_log_freq) \div 100
        t_enc_new == ((FxScale - (t_sacc * FxScale) \div t_enc) * e_new) \div FxScale
    IN  IF t_enc < EMMA_t_prep THEN [total |-> t_enc, moved |-> FALSE]
        ELSE IF t_enc <= t_sacc THEN [total |-> t_sacc, moved |-> TRUE]
        ELSE [total |-> t_sacc + t_enc_new, moved |-> TRUE]

(***************************************************************************)
(* Rewards                                                                 *)
(***************************************************************************)
Reward(p, f) == [pen |-> p, fx |-> f]
RewardAdd(a, b) == [pen |-> a.pen + b.pen, fx |-> a.fx + b.fx]
RewardSubFx(a, f) == [pen |-> a.pen, fx |-> a.fx - f]

(***************************************************************************)
(* Images                                                                  *)
(***************************************************************************)
Coords == 0 .. (ObsSize - 1)
obs_size == <<ObsSize, ObsSize>>

\* the k-th full frame of the base environment; every pixel is non-zero
Frame(k) == [i \in Coords |-> [j \in Coords |-> 1 + ((k + i + 2 * j) % 3)]]
Frames == {Frame(0), Frame(1)}

\* the value of self.state while the attribute does not exist
NoState == <<>>

\* the indices a Python slice start:stop selects in a dimension of length n
SliceBound(i, n) == IF i < 0 THEN Max(i + n, 0) ELSE Min(i, n)
SliceIndices(start, stop, n) ==
    {i \in 0 .. (n - 1) : SliceBound(start, n) <= i /\ i < SliceBound(stop, n)}

(***************************************************************************)
(* State                                                                   *)
(***************************************************************************)
VARIABLES
    \* constructor arguments, fixed once the wrapper is built
    consecutive_pause_limit,   \* self.consecutive_pause_limit
    relative_sensory_actions,  \* args.sensory_action_mode == "relative"
    sensory_step,              \* s of args.sensory_action_space = (-s, s)
    saccade_cost_scale,        \* self.saccade_cost_scale, units of 1e-3
    no_pauses,                 \* self.no_pauses
    fov,                       \* self.fov
    fov_size,                  \* self.fov_size = args.fov_size
    \* the wrapper's attributes
    state,                     \* self.state, NoState before the first reset()
    timestep,                  \* self.timestep
    consecutive_pauses,        \* self.consecutive_pauses
    prev_pause_action,         \* self.prev_pause_action
    fov_loc,                   \* self.fov_loc
    frames,                    \* len(self.frames)
    step_infos,                \* len(self.step_infos)
    episode_info,              \* self.episode_info
    prev_episode,              \* self.prev_episode
    \* observation of the run
    env_calls,                 \* calls the last operation made on the base env
    pause_run,                 \* pause steps since the last non-pause step or reset
    ret                        \* what the last operation returned

config == <<consecutive_pause_limit, relative_sensory_actions, sensory_step,
            saccade_cost_scale, no_pauses, fov, fov_size>>
vars == <<consecutive_pause_limit, relative_sensory_actions, sensory_step,
          saccade_cost_scale, no_pauses, fov, fov_size, state, timestep,
          consecutive_pauses, prev_pause_action, fov_loc, frames, step_infos,
          episode_info, prev_episode, env_calls, pause_run, ret>>

(***************************************************************************)
(* State of the agent (agents/dqn_atari_cr/crdqn.py, CRDQN)                *)
(*                                                                         *)
(* Network parameters are numbered: a fresh network has parameters 0 and   *)
(* every optimizer step yields the next number.  An observation is a pair  *)
(* of pixel values.  score_target is True (the training script's default), *)
(* no_model_output is False and the environment is a one-element vector    *)
(* environment around a PauseableFixedFovealEnv.                           *)
(***************************************************************************)
VARIABLES
    \* constructor arguments
    batch_size,                \* self.batch_size
    learning_start,            \* self.learning_start
    train_frequency,           \* self.train_frequency
    target_network_frequency,  \* self.target_network_frequency
    eval_frequency,            \* self.eval_frequency
    exploration_fraction,      \* self.exploration_fraction, in thousandths
    sensory_config,            \* self.obs_size, self.fov_size and the argument
                               \* sensory_action_space_quantization
    sensory_action_set,        \* self.sensory_action_set
    \* the agent's attributes and learn's locals
    pc,                        \* "constructed", "running", "evaluating",
                               \* "returned", "raised", "killed"
    current_timestep,          \* self.current_timestep
    n_total,                   \* learn's local n (after n += current_timestep)
    q_network,                 \* parameters of self.q_network
    target_network,            \* parameters of self.target_network
    sfn,                       \* parameters of self.sfn
    rb,                        \* transitions held by self.rb
    pvm_buffer,                \* self.pvm_buffer.buffer, oldest first
    out_paths_bound,           \* learn's local out_paths has been assigned
    model_dir,                 \* the checkpoint files in self.model_dir
    epsilon,                   \* self.epsilon, in thousandths
    sfn_loss,                  \* self.sfn_loss: "unset" until _train_sfn ran
    training_mode,             \* nn.Module.training of q_network and sfn
    evaluation,                \* evaluate's locals while it runs
    pvm_obs,                   \* learn's local pvm_obs
    last_transition,           \* the arguments of the last self.rb.add
    data,                      \* the batch _train_dqn was called with
    targets,                   \* the TD targets _train_dqn computed for it
    sfn_call,                  \* the batch _train_sfn is called with, then
                               \* the observation_quality it returns
    \* functions and classes of common/
    emma_call,                 \* a call of EMMA_fixation_time: its argument,
                               \* then what it returns
    legacy_env,                \* the attributes of a common.pauseable_env
                               \* wrapper, by name
    legacy_last,               \* what its last operation did
    \* observation of the run
    n_arg,                     \* the n the caller passed to learn
    loaded_timestep,           \* current_timestep when learn's loop began
    env_steps,                 \* training-environment steps of this learn call
    non_pause_steps,           \* of these, the steps that were not pauses
    pvm_appends,               \* calls of self.pvm_buffer.append in this process
    dqn_calls,                 \* calls of _train_dqn in this process
    saved_states,              \* the agent's values at each save_checkpoint
    runs,                      \* agent processes started so far
    last                       \* what the last agent operation did

agent_config == <<batch_size, learning_start, train_frequency,
                  target_network_frequency, eval_frequency,
                  exploration_fraction, sensory_config, sensory_action_set>>
\* learn's view of the replay buffer
rb_vars == <<pvm_obs, last_transition>>
\* what only evaluate changes, and what only _train_dqn's targets change
eval_vars == <<training_mode, evaluation>>
dqn_vars == <<data, targets>>
\* what only the calls of _train_sfn, EMMA_fixation_time and the wrappers of
\* common.pauseable_env change
aux_vars == <<sfn_call, emma_call, legacy_env, legacy_last>>
agent_vars == <<batch_size, learning_start, train_frequency,
                target_network_frequency, eval_frequency,
                exploration_fraction, sensory_config, sensory_action_set,
                pvm_obs, last_transition, pc,
                current_timestep, n_total, q_network, target_network, sfn, rb,
                pvm_buffer, out_paths_bound, model_dir, epsilon, sfn_loss,
                training_mode, evaluation, data, targets, sfn_call, emma_call,
                legacy_env, legacy_last, n_arg,
                loaded_timestep, env_steps, non_pause_steps, pvm_appends,
                dqn_calls, saved_states, runs, last>>
all_vars == <<vars, agent_vars>>
\* the agent's variables but aux_vars
agent_state == <<agent_config, rb_vars, eval_vars, dqn_vars, pc,
                 current_timestep, n_total, q_network, target_network, sfn,
                 rb, pvm_buffer, out_paths_bound, model_dir, epsilon,
                 sfn_loss, n_arg, loaded_timestep, env_steps, non_pause_steps,
                 pvm_appends, dqn_calls, saved_states, runs, last>>

\* self.n_envs: _step supports one environment only
n_envs == 1
\* learn saves the model whenever current_timestep is a multiple of
SaveInterval == 1000000

\* the constructor arguments the model draws from
BatchSizes == {1, 2}
LearningStarts == {0, 2}
TrainFrequencies == {1, 2}
TargetNetworkFrequencies == {1, 3}
\* -1: evaluate only at the end
EvalFrequencies == {0 - 1, 2}
\* exploration_fraction in thousandths: the script's default 0.10, and 1.0
FractionUnit == 1000
DefaultFraction == 100
ExplorationFractions == {DefaultFraction, FractionUnit}
\* epsilon_interval = (1., 0.01), in thousandths
epsilon_interval == <<1000, 10>>
\* self.epsilon before learn's loop has assigned it
NoEpsilon == 0 - 1

\* learn has not yet read an observation, the replay buffer is empty
NoObs == <<>>
NoTransition == [op |-> "none"]

\* list(range(0, stop, step)): its length
RangeCount(stop, step) == (stop + step - 1) \div step

\* mutant of AxisSet: the list is not cut to the quantization
AxisSetUncut(stop, quantization) ==
    [i \in 1 .. RangeCount(stop, stop \div quantization) |->
        (i - 1) * (stop \div quantization)]

\* list(range(0, max_sensory_action_step, sensory_action_step_size))
\* [:sensory_action_space_quantization] on one axis, with
\* sensory_action_step_size = max_sensory_action_step // quantization
AxisSet(stop, quantization) ==
    [i \in 1 .. Min(quantization, RangeCount(stop, stop \div quantization)) |->
        (i - 1) * (stop \div quantization)]

\* list(product(xs, ys)); the model counts its entries from 1
Product(xs, ys) ==
    [n \in 1 .. Len(xs) * Len(ys) |->
        <<xs[((n - 1) \div Len(ys)) + 1], ys[((n - 1) % Len(ys)) + 1]>>]

\* max_sensory_action_step = obs_size - [fov_size, fov_size]
max_sensory_action_step(c) ==
    <<c.obs_size[1] - c.fov_size, c.obs_size[2] - c.fov_size>>

\* __init__: the discrete sensory action set
SensoryActionSetOf(c) ==
    Product(AxisSet(max_sensory_action_step(c)[1], c.quantization[1]),
            AxisSet(max_sensory_action_step(c)[2], c.quantization[2]))

\* the agent of the other specifications: one sensory action
SingleSensoryConfig ==
    [obs_size |-> <<ObsSize, ObsSize>>, fov_size |-> FovSize,
     quantization |-> <<1, 1>>]

\* nn.Module: a network is in training mode until eval() is called
TrainingModeNew == [q_network |-> TRUE, sfn |-> TRUE]
\* evaluate is not running
NoEvaluation == [running |-> FALSE]
\* _train_dqn has not been called
NoData == <<>>
NoTargets == [op |-> "none"]

NoOperation == [op |-> "construct"]

\* the attributes CRDQN.__init__ sets
AgentAttributesNew ==
    /\ pc = "constructed"
    /\ current_timestep = 0
    /\ n_total = 0
    /\ q_network = 0
    /\ target_network = q_network
    /\ sfn = 0
    /\ rb = 0
    /\ pvm_buffer = <<>>
    /\ pvm_obs = NoObs
    /\ last_transition = NoTransition
    /\ sensory_action_set = SensoryActionSetOf(sensory_config)
    /\ out_paths_bound = FALSE
    /\ epsilon = NoEpsilon
    /\ sfn_loss = "unset"
    /\ training_mode = TrainingModeNew
    /\ evaluation = NoEvaluation
    /\ targets = NoTargets
    /\ n_arg = 0
    /\ loaded_timestep = 0
    /\ env_steps = 0
    /\ non_pause_steps = 0
    /\ pvm_appends = 0
    /\ dqn_calls = 0
    /\ last = NoOperation

\* no call of _train_sfn or EMMA_fixation_time made, no wrapper of
\* common.pauseable_env built
NoCall == [op |-> "none"]
NoCalls ==
    /\ sfn_call = NoCall
    /\ emma_call = NoCall
    /\ legacy_env = NoCall
    /\ legacy_last = NoCall

\* the first agent process, on an empty model directory
AgentAlone(batches, starts, trains, copies, evals, fractions, samples, views) ==
    /\ batch_size \in batches
    /\ sensory_config \in views
    /\ data \in samples
    /\ exploration_fraction \in fractions
    /\ learning_start \in starts
    /\ train_frequency \in trains
    /\ target_network_frequency \in copies
    /\ eval_frequency \in evals
    /\ AgentAttributesNew
    /\ model_dir = {}
    /\ saved_states = {}
    /\ runs = 1

\* the same where nothing of common/ is in use
AgentBuilt(batches, starts, trains, copies, evals, fractions, samples, views) ==
    /\ NoCalls
    /\ AgentAlone(batches, starts, trains, copies, evals, fractions, samples,
                  views)

\* the same with one sensory action
AgentConstructedAs(batches, starts, trains, copies, evals, fractions, samples) ==
    AgentBuilt(batches, starts, trains, copies, evals, fractions, samples,
               {SingleSensoryConfig})

\* the same with the script's default exploration_fraction
AgentConstructed(batches, starts, train_freqs, target_freqs, eval_freqs) ==
    AgentConstructedAs(batches, starts, train_freqs, target_freqs, eval_freqs,
                       {DefaultFraction}, {NoData})

\* an agent that is never run
AgentIdle == AgentConstructed({1}, {0}, {1}, {1}, {0 - 1})
\* the same, whatever of common/ is in use
AgentNeverRun ==
    AgentAlone({1}, {0}, {1}, {1}, {0 - 1}, {DefaultFraction}, {NoData},
               {SingleSensoryConfig})

(***************************************************************************)
(* __init__                                                                *)
(***************************************************************************)
FovTypes == {"window"}
\* the fovea modes __init__ and _crop_observation know
KnownFovTypes == {"window", "gaussian", "exponential"}
\* the fov the training script passes: its fifth positional argument,
\* args.no_action_pause_cost = 0.1
ScriptFov == "0.1"

\* the value of self.pause_action when pausing is disabled (None)
NoPauseAction == 0 - 1

\* mutant of pause_action: the last index of the motor action space is the
\* pause index also when pausing is disabled
pause_action_despite_no_pauses ==
    (IF no_pauses THEN NumActions ELSE NumActions + 1) - 1

\* self.pause_action: the last index of the motor action space
pause_action == IF no_pauses THEN NoPauseAction ELSE (NumActions + 1) - 1

\* the motor actions of self.action_space["motor_action"]
MotorActions == 0 .. ((IF no_pauses THEN NumActions ELSE NumActions + 1) - 1)

\* self.sensory_action_space
sensory_action_space ==
    IF relative_sensory_actions THEN <<0 - sensory_step, sensory_step>>
    ELSE IF fov \in {"gaussian", "exponential"} THEN obs_size
    ELSE <<obs_size[1] - fov_size[1], obs_size[2] - fov_size[2]>>

\* args.fov_init_loc
fov_init_loc == <<0, 0>>

\* args.sensory_action_space = (-s, s), s one of
SensorySteps == {1}
\* saccade_cost_scale, units of 1e-3: 0.0 and 0.001
SaccadeCostScales == {0, 1}

\* the sensory actions an agent may send: in range and out of range on both
\* sides, for the absolute and for the relative mode
SensoryValues == (0 - 1) .. (ObsSize - FovSize + 1)
SensoryActions == SensoryValues \X SensoryValues
\* two of them: the initial fovea location and the opposite corner
RunSensoryActions == {<<0, 0>>, <<ObsSize - FovSize, ObsSize - FovSize>>}

EpisodeInfoNew ==
    [reward |-> Reward(0, 0), raw_reward |-> 0, reward_wo_sugarl |-> 0,
     pauses |-> 0, prevented_pauses |-> 0, no_action_pauses |-> 0,
     saccade_cost |-> 0]

NoEpisode == [exists |-> FALSE, frames |-> 0, annotations |-> 0]
NoReturn == [op |-> "init"]
\* __init__ raised: there is no wrapper instance
InitRaised == [op |-> "init_raised"]

\* __init__ asserts fov_size < obs_size on both axes (AssertionError), and
\* reads self.sensory_action_space, which no branch has set when the mode is
\* absolute and fov is none of the known modes (AttributeError)
InitRaises ==
    \/ ~(fov_size[1] < obs_size[1] /\ fov_size[2] < obs_size[2])
    \/ ~relative_sensory_actions /\ fov \notin KnownFovTypes

\* the outcome of construction for a choice of constructor arguments
ConstructedWith(limits, modes, scales, fovs, pausings, sizes) ==
    /\ fov_size \in sizes
    /\ consecutive_pause_limit \in limits
    /\ relative_sensory_actions \in modes
    /\ sensory_step \in SensorySteps
    /\ saccade_cost_scale \in scales
    /\ no_pauses \in pausings
    /\ fov \in fovs
    /\ prev_pause_action = 0
    /\ prev_episode = NoEpisode
    \* attributes that exist only after reset()
    /\ state = NoState
    /\ timestep = 0 - 1
    /\ consecutive_pauses = 0
    /\ fov_loc = fov_init_loc
    /\ frames = 0
    /\ step_infos = 0
    /\ episode_info = EpisodeInfoNew
    /\ env_calls = <<>>
    /\ pause_run = 0
    /\ ret = IF InitRaises THEN InitRaised ELSE NoReturn

\* the same with args.fov_size = (FovSize, FovSize)
ConstructedAs(limits, modes, scales, fovs, pausings) ==
    ConstructedWith(limits, modes, scales, fovs, pausings,
                    {<<FovSize, FovSize>>})

\* the wrapper right after construction, pausing enabled, fov = "window"
Constructed(limits, modes, scales) ==
    ConstructedAs(limits, modes, scales, FovTypes, {FALSE})

Init == Constructed(0 .. MaxLimit, BOOLEAN, SaccadeCostScales) /\ AgentIdle

(***************************************************************************)
(* _clip_to_valid_fov, _fov_step, _crop_observation                        *)
(***************************************************************************)
_clip_to_valid_fov(loc) ==
    <<Clip(loc[1], 0, sensory_action_space[1]),
      Clip(loc[2], 0, sensory_action_space[2])>>

\* the new self.fov_loc of _fov_step
FovStepLoc(loc, action) ==
    IF relative_sensory_actions
    THEN LET a == _clip_to_valid_fov(action)
         IN  _clip_to_valid_fov(<<loc[1] + a[1], loc[2] + a[2]>>)
    ELSE _clip_to_valid_fov(action)

\* _pixel_eccentricities: np.meshgrid(x, y, indexing="xy") minus fov_loc;
\* with "xy" the first array of the mesh varies along the second index
_pixel_eccentricities(loc) ==
    [axis \in 1 .. 2 |-> [i \in Coords |-> [j \in Coords |->
        IF axis = 1 THEN j - loc[1] ELSE i - loc[2]]]]

\* a.max() of a two-dimensional array
ArrayMax(a) ==
    CHOOSE v \in {a[i][j] : i \in Coords, j \in Coords} :
        \A i \in Coords, j \in Coords : a[i][j] <= v

\* "mask /= mask.max()", scale FxScale
Normalized(a) ==
    LET max == ArrayMax(a)
    IN  [i \in Coords |-> [j \in Coords |-> (a[i][j] * FxScale) \div max]]

\* np.exp(-x) for x >= 0 in scale FxScale: zero from e^-13 on
ExpNegFx(x) == (FxScale * FxScale) \div ExpHeld(x)

\* the entry of an array that is nan
NaN == 0 - 1

\* the gaussian mask: exp(-sum(square(d) / (2 * square(sigma)))) with
\* sigma = fov_size[0] / 2, divided by its maximum. With sigma = 0 the
\* quotients are inf or (at a distance of zero) nan, the exponentials 0 or nan,
\* and the division by the maximum leaves nan everywhere
GaussianMask(loc) ==
    LET d == _pixel_eccentricities(loc)
    IN  IF fov_size[1] = 0 THEN [i \in Coords |-> [j \in Coords |-> NaN]]
        ELSE
        Normalized([i \in Coords |-> [j \in Coords |->
            ExpNegFx((2 * FxScale * (d[1][i][j] * d[1][i][j]
                                     + d[2][i][j] * d[2][i][j]))
                     \div (fov_size[1] * fov_size[1]))]])

\* SCREEN_SIZE of atari_head.dataset: the screen the visual degrees span
SCREEN_SIZE == obs_size
\* A, B and C of graphs.eccentricity: acuity A * exp(B * e) + C at e degrees
\* falls from A + C; A and C in scale FxScale, -B per degree in scale FxScale
Eccentricity_A == 900
Eccentricity_minus_B == 100
Eccentricity_C == 100

\* the exponential mask: A * exp(B * abs_distances) + C over the distances
\* in visual degrees (centi-degrees here), divided by its maximum
ExponentialMask(loc) ==
    LET d == _pixel_eccentricities(loc)
        Degrees(axis, i, j) ==
            (d[axis][i][j] * VISUAL_DEGREE_SCREEN_SIZE[axis])
                \div SCREEN_SIZE[axis]
        abs_distances(i, j) ==
            ISqrt(Degrees(1, i, j) * Degrees(1, i, j)
                  + Degrees(2, i, j) * Degrees(2, i, j))
    IN  Normalized([i \in Coords |-> [j \in Coords |->
            MulFx(Eccentricity_A,
                  ExpNegFx((Eccentricity_minus_B * abs_distances(i, j))
                           \div 100))
            + Eccentricity_C]])

\* the mask of the fovea modes that have one
Mask(loc) == IF fov = "gaussian" THEN GaussianMask(loc) ELSE ExponentialMask(loc)

_crop_observation(full_state, loc) ==
    IF fov \in {"gaussian", "exponential"}
    THEN LET mask == Mask(loc)
         IN  [i \in Coords |-> [j \in Coords |->
                 IF mask[i][j] = NaN THEN NaN ELSE full_state[i][j] * mask[i][j]]]
    ELSE IF fov = "window"
    THEN LET rows == SliceIndices(loc[1], loc[1] + fov_size[1], ObsSize)
             cols == SliceIndices(loc[2], loc[2] + fov_size[2], ObsSize)
         IN  [i \in Coords |-> [j \in Coords |->
                 IF i \in rows /\ j \in cols THEN full_state[i][j] ELSE 0]]
    ELSE [i \in Coords |-> [j \in Coords |-> 0]]

(***************************************************************************)
(* reset                                                                   *)
(***************************************************************************)
Reset ==
    \E f \in Frames :
        /\ ret # InitRaised
        /\ state' = f
        /\ frames' = 0
        /\ step_infos' = 0
        /\ episode_info' = EpisodeInfoNew
        /\ timestep' = 0 - 1
        /\ consecutive_pauses' = 0
        /\ fov_loc' = fov_init_loc
        /\ env_calls' = <<[op |-> "reset"]>>
        /\ pause_run' = 0
        /\ ret' = [op |-> "reset", obs |-> _crop_observation(f, fov_init_loc),
                   info |-> [raw_reward |-> 0]]
        /\ UNCHANGED <<config, prev_pause_action, prev_episode>>

(***************************************************************************)
(* step                                                                    *)
(***************************************************************************)
\* what self.env.step can return: the next full state, the (clipped) reward,
\* the two end flags and info["raw_reward"] (the unclipped reward)
EnvResponses ==
    {[state |-> Frame(0), reward |-> 0, raw_reward |-> 0,
      done |-> FALSE, truncated |-> FALSE],
     [state |-> Frame(1), reward |-> 1, raw_reward |-> 2,
      done |-> FALSE, truncated |-> FALSE],
     [state |-> Frame(1), reward |-> 1, raw_reward |-> 2,
      done |-> TRUE, truncated |-> FALSE],
     [state |-> Frame(0), reward |-> 0, raw_reward |-> 0,
      done |-> FALSE, truncated |-> TRUE]}

\* the responses to one wrapper step: a pause step does not consult the
\* base environment
EnvStep(motor_action) ==
    IF motor_action = pause_action /\ state # NoState
    THEN {CHOOSE e \in EnvResponses : TRUE}
    ELSE EnvResponses

\* _sample_no_pause: an index into the base environment's actions
SampleNoPause == 0 .. (NumActions - 1)

\* the guard of the first-step substitution
PauseDisallowed(pauses) == state = NoState /\ pauses

\* the branch a pause step takes
PauseKind(sensory_action) ==
    IF consecutive_pauses > consecutive_pause_limit THEN "over_limit"
    ELSE IF fov_loc[1] = sensory_action[1] /\ fov_loc[2] = sensory_action[2]
         THEN "no_action"
    ELSE "pause"

\* mutant of PauseReward: a no-action pause is charged like an ordinary pause
PauseRewardNoActionUnpunished(kind) ==
    IF kind = "over_limit" THEN MASKED_ACTION_PENTALTY
    ELSE Reward(0, 0 - pause_cost)

\* step_info["reward"] of a pause step, before the saccade cost
PauseReward(kind) ==
    IF kind \in {"over_limit", "no_action"} THEN MASKED_ACTION_PENTALTY
    ELSE Reward(0, 0 - pause_cost)

\* mutant of LogAnotherPause: the counter is never incremented
LogAnotherPauseNoIncrement ==
    IF prev_pause_action # 0 THEN consecutive_pauses ELSE 0

\* self.consecutive_pauses after a pause step
LogAnotherPause ==
    IF prev_pause_action # 0 THEN consecutive_pauses + 1 ELSE 0

\* the visual-degree distance between two fovea locations, centi-degrees
VisualDegreeDistance(loc, prev_fov_loc) ==
    LET Abs(x) == IF x < 0 THEN 0 - x ELSE x
        dx == (Abs(loc[1] - prev_fov_loc[1]) * VISUAL_DEGREE_SCREEN_SIZE[1])
                  \div obs_size[1]
        dy == (Abs(loc[2] - prev_fov_loc[2]) * VISUAL_DEGREE_SCREEN_SIZE[2])
                  \div obs_size[2]
    IN  ISqrt(dx * dx + dy * dy)

\* the largest fovea displacement on one axis, in pixels: the sensory action
\* space of the gaussian and exponential modes reaches obs_size
MaxDisplacement == ObsSize

\* total_emma_time for every fovea displacement (|dx|, |dy|) the wrapper can
\* make, 1e-4 s, tabulated once: entry 1 + |dx| * (MaxDisplacement + 1) + |dy|
RECURSIVE EmmaTimesUpTo(_)
EmmaTimesUpTo(n) ==
    IF n = 0 THEN <<>>
    ELSE Append(EmmaTimesUpTo(n - 1),
                EMMA_fixation_time(VisualDegreeDistance(
                    <<(n - 1) \div (MaxDisplacement + 1),
                      (n - 1) % (MaxDisplacement + 1)>>, <<0, 0>>)).total)
EmmaTimes == EmmaTimesUpTo((MaxDisplacement + 1) * (MaxDisplacement + 1))
TotalEmmaTime(loc, prev_fov_loc) ==
    LET Abs(x) == IF x < 0 THEN 0 - x ELSE x
    IN  EmmaTimes[1 + Abs(loc[1] - prev_fov_loc[1]) * (MaxDisplacement + 1)
                    + Abs(loc[2] - prev_fov_loc[2])]

\* mutant of SaccadeCost: the scale is left out
SaccadeCostUnscaled(loc, prev_fov_loc) == TotalEmmaTime(loc, prev_fov_loc)

\* step_info["saccade_cost"], fx units of 1e-7
SaccadeCost(loc, prev_fov_loc) ==
    saccade_cost_scale * TotalEmmaTime(loc, prev_fov_loc)

\* mutant of AddToEpisodeInfo: the pause count is overwritten, not summed
AddToEpisodeInfoPausesAssigned(ei, si) ==
    [reward |-> RewardAdd(ei.reward, si.reward),
     raw_reward |-> ei.raw_reward + si.raw_reward,
     reward_wo_sugarl |-> ei.reward_wo_sugarl + si.reward_wo_sugarl,
     pauses |-> si.pauses,
     prevented_pauses |-> ei.prevented_pauses + si.prevented_pauses,
     no_action_pauses |-> ei.no_action_pauses + si.no_action_pauses,
     saccade_cost |-> ei.saccade_cost + si.saccade_cost]

\* "for key in self.episode_info.keys(): self.episode_info[key] += step_info[key]"
AddToEpisodeInfo(ei, si) ==
    [reward |-> RewardAdd(ei.reward, si.reward),
     raw_reward |-> ei.raw_reward + si.raw_reward,
     reward_wo_sugarl |-> ei.reward_wo_sugarl + si.reward_wo_sugarl,
     pauses |-> ei.pauses + si.pauses,
     prevented_pauses |-> ei.prevented_pauses + si.prevented_pauses,
     no_action_pauses |-> ei.no_action_pauses + si.no_action_pauses,
     saccade_cost |-> ei.saccade_cost + si.saccade_cost]

\* EpisodeRecord.annotations_from_step_infos: the number of rows of the
\* table built from n StepInfos, one row each
annotations_from_step_infos(n) == n

\* EpisodeRecord(frames, annotations, ...): the lengths it holds; its
\* assertion requires them to be equal
EpisodeRecord(nframes, nrows) ==
    [exists |-> TRUE, frames |-> nframes, annotations |-> nrows]

\* mutant of PrevEpisodeAfter: a truncated episode is not recorded
PrevEpisodeOnlyOnDone(si, nframes, ninfos) ==
    IF si.done
    THEN EpisodeRecord(nframes, annotations_from_step_infos(ninfos))
    ELSE prev_episode

\* self.prev_episode after a step with len(self.frames) = nframes and
\* len(self.step_infos) = ninfos
PrevEpisodeAfter(si, nframes, ninfos) ==
    IF si.done \/ si.truncated
    THEN EpisodeRecord(nframes, annotations_from_step_infos(ninfos))
    ELSE prev_episode

\* the episode is over once a step returned done or truncated; the caller
\* resets before it steps again
EpisodeOver == ret.op = "step" /\ (ret.done \/ ret.truncated)

\* mutant of ConsecutivePausesAfter: a normal step does not reset the counter
ConsecutivePausesNotReset(pauses) ==
    IF pauses THEN LogAnotherPause ELSE consecutive_pauses

\* mutant of FullStateAfter: a pause step stores a base-environment state too
FullStateAlwaysStepped(pauses, e) == e.state

\* self.consecutive_pauses after a step
ConsecutivePausesAfter(pauses) == IF pauses THEN LogAnotherPause ELSE 0

\* self.state after a step: a pause step keeps the stored full state
FullStateAfter(pauses, e) == IF pauses THEN state ELSE e.state

\* the calls a step makes on the base environment, with what they returned
EnvCalls(pauses, motor, e) ==
    IF pauses THEN <<>>
    ELSE <<[op |-> "step", action |-> motor, returned |-> e]>>

\* the StepInfo of a step, before its episode_info snapshot is taken;
\* `requested` is the motor action passed in, `motor` the one carried out
StepInfo(requested, motor, sensory_action, e, loc) ==
    LET pauses == motor = pause_action
        kind   == PauseKind(sensory_action)
        cost   == SaccadeCost(loc, fov_loc)
        branch == IF pauses THEN PauseReward(kind)
                  ELSE Reward(0, e.reward * RewardUnit)
    IN  [reward |-> RewardSubFx(branch, cost),
         raw_reward |-> IF pauses THEN 0 ELSE e.reward * RewardUnit,
         reward_wo_sugarl |-> IF pauses THEN 0 ELSE e.raw_reward * RewardUnit,
         pauses |-> IF pauses THEN 1 ELSE 0,
         prevented_pauses |-> IF pauses /\ kind = "over_limit" THEN 1 ELSE 0,
         no_action_pauses |-> IF pauses /\ kind = "no_action" THEN 1 ELSE 0,
         saccade_cost |-> cost,
         timestep |-> timestep + 1,
         fov_loc |-> fov_loc,
         motor_action |-> requested,
         sensory_action |-> sensory_action,
         emma_time |-> TotalEmmaTime(loc, fov_loc),
         done |-> IF pauses THEN FALSE ELSE e.done,
         truncated |-> IF pauses THEN kind = "over_limit" ELSE e.truncated,
         consecutive_pauses |-> ConsecutivePausesAfter(pauses)]

Step(motor_action, sensory_action, e, horizon) ==
    /\ state # NoState
    /\ ~EpisodeOver
    /\ timestep + 1 < horizon
    /\ \E motor \in (IF PauseDisallowed(motor_action = pause_action)
                     THEN SampleNoPause ELSE {motor_action}) :
       \E loc \in {FovStepLoc(fov_loc, sensory_action)} :
       \E si \in {StepInfo(motor_action, motor, sensory_action, e, loc)} :
       \E ei \in {AddToEpisodeInfo(episode_info, si)} :
       \E full \in {FullStateAfter(si.pauses = 1, e)} :
            /\ timestep' = si.timestep
            /\ frames' = frames + 1
            /\ consecutive_pauses' = si.consecutive_pauses
            /\ prev_pause_action' = IF si.pauses = 1 THEN 1 ELSE prev_pause_action
            /\ state' = full
            /\ env_calls' = EnvCalls(si.pauses = 1, motor, e)
            /\ pause_run' = IF si.pauses = 1 THEN pause_run + 1 ELSE 0
            /\ fov_loc' = loc
            /\ episode_info' = ei
            /\ step_infos' = step_infos + 1
            /\ prev_episode' = PrevEpisodeAfter(si, frames + 1, step_infos + 1)
            /\ ret' = [op |-> "step", obs |-> _crop_observation(full, loc),
                       reward |-> si.reward, done |-> si.done,
                       truncated |-> si.truncated,
                       info |-> [step_info |-> si, episode_info |-> ei]]
            /\ UNCHANGED config

\* the steps an agent can take with motor actions M and sensory actions S
Steps(M, S, horizon) ==
    \E m \in M, s \in S : \E e \in EnvStep(m) : Step(m, s, e, horizon)

\* runs of pauses: every limit, every motor action, two sensory actions
Next ==
    \/ Reset /\ UNCHANGED agent_vars
    \/ Steps(MotorActions, RunSensoryActions, MaxSteps) /\ UNCHANGED agent_vars

Spec == Init /\ [][Next]_vars

\* fovea movement: every sensory action, the smallest limit, short episodes
InitFovea == Constructed({0}, BOOLEAN, SaccadeCostScales) /\ AgentIdle

NextFovea ==
    \/ Reset /\ UNCHANGED agent_vars
    \/ Steps({0, pause_action}, SensoryActions, FoveaSteps)
           /\ UNCHANGED agent_vars

SpecFovea == InitFovea /\ [][NextFovea]_vars

(***************************************************************************)
(* The agent: PVM buffer, checkpoints, learn                               *)
(***************************************************************************)
\* the observations a vector environment returns, two pixels each
AgentObs == {<<0, 1>>, <<1, 0>>}

\* what env.step of the vector environment returns to _step: on the end of an
\* episode the observation is the first one of the next episode and infos
\* holds the final observation
VecEnvResponses ==
    {[obs |-> o, done |-> FALSE, final_observation |-> o] : o \in AgentObs}
    \cup {[obs |-> <<0, 1>>, done |-> TRUE, final_observation |-> <<1, 0>>]}

\* np.max(np.vstack([a, b]), axis=0): the element-wise maximum
ElementwiseMax(a, b) == [i \in DOMAIN a |-> Max(a[i], b[i])]

\* PVMBuffer.append: push, evicting the oldest entry at capacity
PvmAppend(buf, x) ==
    IF Len(buf) >= PvmStack THEN Append(Tail(buf), x) ELSE Append(buf, x)

\* PVMBuffer.get_obs(mode="stack_max"): the element-wise maximum of the
\* buffer's entries
RECURSIVE StackMax(_)
StackMax(buf) ==
    IF Len(buf) = 1 THEN buf[1]
    ELSE ElementwiseMax(buf[1], StackMax(Tail(buf)))

\* mutant of PvmObsAfterStep: pvm_obs stays the first observation
PvmObsNotAdvanced(old_pvm_obs, next_pvm_obs) == old_pvm_obs

\* learn: pvm_obs = next_pvm_obs
PvmObsAfterStep(old_pvm_obs, next_pvm_obs) == next_pvm_obs

\* _step: the observation handed to the PVM buffer (training, not eval)
NextObs(resp) == IF resp.done THEN resp.final_observation ELSE resp.obs

\* mutant of PvmAfterStep: a pause step appends like any other step
PvmAlwaysAppended(buf, motor, next_obs) == PvmAppend(buf, next_obs)

\* _step: the PVM buffer after a step with motor action `motor`
PvmAfterStep(buf, motor, next_obs) ==
    IF motor = pause_action
    THEN [buf EXCEPT ![Len(buf)] = ElementwiseMax(buf[Len(buf)], next_obs)]
    ELSE PvmAppend(buf, next_obs)

\* the digits of "{current_timestep:07d}" in a checkpoint's file name
StepDigits == 7
FormatStep(step) ==
    [i \in 1 .. StepDigits |-> (step \div (10 ^ (StepDigits - i))) % 10]
\* int(model.split("_")[1][4:])
RECURSIVE ParseStep(_)
ParseStep(digits) ==
    IF digits = <<>> THEN 0
    ELSE 10 * ParseStep(SubSeq(digits, 1, Len(digits) - 1)) + digits[Len(digits)]

\* mutant of CheckpointOf: the target network is stored as "q"
CheckpointOfTarget(sfn_params, q_params, step) ==
    [sfn |-> sfn_params, q |-> target_network, training_steps |-> step]

\* save_checkpoint: the object written
CheckpointOf(sfn_params, q_params, step) ==
    [sfn |-> sfn_params, q |-> q_params, training_steps |-> step]

\* _save_output with save_checkpoint: a file of the same name is replaced
WriteCheckpoint(dir, sfn_params, q_params, step) ==
    {f \in dir : f.name # FormatStep(step)}
    \cup {[name |-> FormatStep(step),
           content |-> CheckpointOf(sfn_params, q_params, step)]}

\* the agent's values at a save, kept per file name
Snapshot(snaps, sfn_params, q_params, step) ==
    {s \in snaps : s.name # FormatStep(step)}
    \cup {[name |-> FormatStep(step), sfn |-> sfn_params, q |-> q_params,
           current_timestep |-> step]}

\* learn: seeded_models[np.argmax(timesteps)]
LatestModel(dir) ==
    CHOOSE f \in dir : \A g \in dir : ParseStep(g.name) <= ParseStep(f.name)

\* mutant of BudgetAfterLoad: n is not raised by the restored timestep
BudgetNotRaised(budget, restored) == budget

\* learn: n += self.current_timestep after a checkpoint was loaded
BudgetAfterLoad(budget, restored) == budget + restored

\* learn: "if self.current_timestep > self.batch_size"
BatchAvailable(step) == step > batch_size

\* mutant of TrainingDue: the size of the replay buffer is not asked for
TrainingDueIgnoringBatch(step) == step % train_frequency = 0

\* learn: train() is called
TrainingDue(step) == BatchAvailable(step) /\ step % train_frequency = 0

\* mutant of DqnDue: Q-learning starts at learning_start
DqnDueAtLearningStart(step) == step >= learning_start

\* train: _train_dqn is called
DqnDue(step) == step > learning_start

\* _train_dqn: the target network is overwritten
TargetCopyDue(step) == (step \div n_envs) % target_network_frequency = 0

\* learn: evaluate() is called (eval_frequency is never 0)
EvaluationDue(step, budget) ==
    (eval_frequency > 0 /\ step % eval_frequency = 0) \/ step >= budget

\* linear_schedule: max(slope * t + start_e, end_e) with
\* slope = (end_e - start_e) / duration; the values are in thousandths and
\* so is the duration, a number of steps
linear_schedule(start_e, end_e, duration, t) ==
    Max(start_e - ((start_e - end_e) * t * FractionUnit) \div duration, end_e)

\* _epsilon_schedule(total_timesteps) at self.current_timestep = t
_epsilon_schedule(total_timesteps, t) ==
    linear_schedule(epsilon_interval[1], epsilon_interval[2],
                    exploration_fraction * total_timesteps, t)

\* q_network.eval(), sfn.eval()
EvalMode == [q_network |-> FALSE, sfn |-> FALSE]

\* mutant of TrainingModeAfterEvaluate: the networks are left in eval mode
TrainingModeLeftInEval == EvalMode

\* evaluate's end: q_network.train(), sfn.train()
TrainingModeAfterEvaluate == [q_network |-> TRUE, sfn |-> TRUE]

\* evaluate up to its loop over the evaluation episodes
EvaluationBegun ==
    [running |-> TRUE, eval_ep |-> 0, in_episode |-> FALSE, done |-> FALSE,
     eval_pvm_buffer |-> <<>>, steps |-> 0, episodes_ended |-> 0,
     episode_infos |-> <<>>]

\* _step: _log_episode reads self.sfn_loss, an attribute that only
\* _train_sfn sets; reading it before raises AttributeError
LogEpisodeRaises(resp) == resp.done /\ sfn_loss = "unset"

\* learn up to the loop: an existing checkpoint is loaded, the environment
\* is reset and its observation appended to the PVM buffer
LearnStart(budget, obs) ==
    /\ pc = "constructed"
    /\ \E loaded \in {model_dir # {}} :
       \E checkpoint \in {IF loaded THEN LatestModel(model_dir).content
                          ELSE CheckpointOf(sfn, q_network, current_timestep)} :
            /\ sfn' = checkpoint.sfn
            /\ q_network' = checkpoint.q
            /\ current_timestep' = checkpoint.training_steps
            /\ n_total' = IF loaded
                          THEN BudgetAfterLoad(budget, checkpoint.training_steps)
                          ELSE budget
            /\ loaded_timestep' = checkpoint.training_steps
            /\ last' = [op |-> "start", loaded |-> loaded,
                        file |-> IF loaded THEN LatestModel(model_dir).name
                                 ELSE <<>>]
    /\ n_arg' = budget
    /\ pvm_buffer' = PvmAppend(pvm_buffer, obs)
    /\ pvm_appends' = pvm_appends + 1
    /\ pc' = "running"
    /\ pvm_obs' = StackMax(pvm_buffer')
    /\ UNCHANGED <<agent_config, target_network, rb, out_paths_bound,
                   model_dir, epsilon, sfn_loss, eval_vars, dqn_vars, aux_vars,
                   last_transition,
                   env_steps, non_pause_steps, dqn_calls,
                   saved_states, runs>>
    /\ UNCHANGED vars

\* a pass of learn's loop in which _step raises out of _log_episode: the
\* environment has stepped, nothing after the call has run
LearnIterationRaised(motor) ==
    /\ pc' = "raised"
    /\ env_steps' = env_steps + 1
    /\ last' = [op |-> "log_episode_raised", motor |-> motor]
    /\ UNCHANGED <<current_timestep, q_network, target_network, sfn, rb,
                   pvm_buffer, out_paths_bound, model_dir, sfn_loss,
                   eval_vars, rb_vars, non_pause_steps, pvm_appends, dqn_calls,
                   saved_states>>

\* a pass of learn's loop that reaches its end: act (_step), store the
\* transition, count the step, then save, train and evaluate as due.  With
\* `unfolded` the pass stops where evaluate is entered and the evaluation is
\* taken step by step (EvaluateEpisode, EvaluateStep, EvaluateReturn);
\* without, the evaluation is taken whole.
LearnIterationCompleted(motor, resp, unfolded) ==
    /\ \E step \in {current_timestep + n_envs} :
       \E next_obs \in {NextObs(resp)} :
       \E sensory_action_index \in DOMAIN sensory_action_set :
       \E next_pvm_obs \in {StackMax(PvmAfterStep(pvm_buffer, motor, next_obs))} :
       \E saving \in {BatchAvailable(step) /\ step % SaveInterval = 0} :
       \E training \in {TrainingDue(step)} :
       \E dqn \in {TrainingDue(step) /\ DqnDue(step)} :
       \E copying \in {TrainingDue(step) /\ DqnDue(step) /\ TargetCopyDue(step)} :
       \E evaluating \in {BatchAvailable(step) /\ EvaluationDue(step, n_total)} :
       \E sfn_new \in {IF training THEN sfn + 1 ELSE sfn} :
       \E q_new \in {IF dqn THEN q_network + 1 ELSE q_network} :
            /\ pvm_buffer' = PvmAfterStep(pvm_buffer, motor, next_obs)
            /\ pvm_appends' = IF motor = pause_action THEN pvm_appends
                              ELSE pvm_appends + 1
            /\ non_pause_steps' = IF motor = pause_action THEN non_pause_steps
                                  ELSE non_pause_steps + 1
            /\ env_steps' = env_steps + 1
            /\ rb' = rb + n_envs
            /\ last_transition' =
                   [op |-> "add", observations |-> pvm_obs,
                    next_observations |-> next_pvm_obs,
                    motor_actions |-> motor,
                    sensory_actions |-> sensory_action_index,
                    dones |-> resp.done]
            /\ pvm_obs' = PvmObsAfterStep(pvm_obs, next_pvm_obs)
            /\ current_timestep' = step
            /\ sfn' = sfn_new
            /\ q_network' = q_new
            /\ target_network' = IF copying THEN q_new ELSE target_network
            /\ dqn_calls' = IF dqn THEN dqn_calls + 1 ELSE dqn_calls
            /\ sfn_loss' = IF training THEN "set" ELSE sfn_loss
            /\ out_paths_bound' = (out_paths_bound \/ (evaluating /\ ~unfolded))
            /\ pc' = IF evaluating /\ unfolded THEN "evaluating" ELSE pc
            /\ training_mode' = IF evaluating /\ unfolded THEN EvalMode
                                ELSE training_mode
            /\ evaluation' = IF evaluating /\ unfolded THEN EvaluationBegun
                             ELSE evaluation
            /\ \E dir \in {IF saving
                           THEN WriteCheckpoint(model_dir, sfn, q_network, step)
                           ELSE model_dir} :
               \E snaps \in {IF saving
                             THEN Snapshot(saved_states, sfn, q_network, step)
                             ELSE saved_states} :
                    /\ model_dir' = IF evaluating /\ ~unfolded
                                    THEN WriteCheckpoint(dir, sfn_new, q_new, step)
                                    ELSE dir
                    /\ saved_states' = IF evaluating /\ ~unfolded
                                       THEN Snapshot(snaps, sfn_new, q_new, step)
                                       ELSE snaps
            /\ last' = [op |-> "iteration", motor |-> motor,
                        follows_done |-> (/\ last_transition.op = "add"
                                          /\ last_transition.dones),
                        sent |-> [motor_action |-> motor,
                                  sensory_action |->
                                      sensory_action_set[sensory_action_index]],
                        next_obs |-> next_obs, trained |-> training,
                        dqn |-> dqn, copied |-> copying,
                        evaluated |-> evaluating,
                        saved |-> (saving \/ (evaluating /\ ~unfolded))]

\* one pass of learn's loop
LearnPass(motor, resp, unfolded) ==
    /\ pc = "running"
    /\ current_timestep < n_total
    /\ epsilon' = _epsilon_schedule(n_total, current_timestep)
    /\ IF LogEpisodeRaises(resp)
       THEN LearnIterationRaised(motor)
       ELSE LearnIterationCompleted(motor, resp, unfolded)
    /\ UNCHANGED <<agent_config, dqn_vars, aux_vars, n_total, n_arg, loaded_timestep,
                   runs>>
    /\ UNCHANGED vars

\* one pass of learn's loop, an evaluation that is due included
LearnIteration(motor, resp) == LearnPass(motor, resp, FALSE)

\* one pass of learn's loop up to the call of evaluate
LearnIterationToEvaluate(motor, resp) == LearnPass(motor, resp, TRUE)

\* learn after the loop: "return eval_returns, out_paths" raises
\* UnboundLocalError when no evaluation has assigned out_paths
LearnReturn ==
    /\ pc = "running"
    /\ current_timestep >= n_total
    /\ pc' = IF out_paths_bound THEN "returned" ELSE "raised"
    /\ last' = [op |-> "return"]
    /\ UNCHANGED <<agent_config, current_timestep, n_total, q_network,
                   target_network, sfn, rb, pvm_buffer, out_paths_bound,
                   model_dir, epsilon, sfn_loss, eval_vars, dqn_vars, aux_vars, rb_vars,
                   n_arg, loaded_timestep, env_steps,
                   non_pause_steps, pvm_appends, dqn_calls, saved_states, runs>>
    /\ UNCHANGED vars

\* the process running learn is stopped from outside
Interrupt ==
    /\ pc = "running"
    /\ pc' = "killed"
    /\ last' = [op |-> "interrupt"]
    /\ UNCHANGED <<agent_config, current_timestep, n_total, q_network,
                   target_network, sfn, rb, pvm_buffer, out_paths_bound,
                   model_dir, epsilon, sfn_loss, eval_vars, dqn_vars, aux_vars, rb_vars,
                   n_arg, loaded_timestep, env_steps,
                   non_pause_steps, pvm_appends, dqn_calls, saved_states, runs>>
    /\ UNCHANGED vars

\* a new process builds a new agent (__init__) on the same model directory
NewAgent ==
    /\ pc \in {"returned", "raised", "killed"}
    /\ runs < MaxRuns
    /\ runs' = runs + 1
    /\ pc' = "constructed"
    /\ current_timestep' = 0
    /\ n_total' = 0
    /\ q_network' = 0
    /\ target_network' = 0
    /\ sfn' = 0
    /\ rb' = 0
    /\ pvm_buffer' = <<>>
    /\ pvm_obs' = NoObs
    /\ last_transition' = NoTransition
    /\ out_paths_bound' = FALSE
    /\ epsilon' = NoEpsilon
    /\ sfn_loss' = "unset"
    /\ training_mode' = TrainingModeNew
    /\ evaluation' = NoEvaluation
    /\ n_arg' = 0
    /\ loaded_timestep' = 0
    /\ env_steps' = 0
    /\ non_pause_steps' = 0
    /\ pvm_appends' = 0
    /\ dqn_calls' = 0
    /\ last' = NoOperation
    /\ UNCHANGED <<agent_config, dqn_vars, aux_vars, model_dir, saved_states>>
    /\ UNCHANGED vars

\* the PVM buffer: one learn call, every motor action, every response of the
\* environment, pausing enabled and disabled
InitPvm ==
    /\ ConstructedAs({0}, {FALSE}, {0}, FovTypes, BOOLEAN)
    /\ AgentConstructed({1}, {0}, {1}, {1}, {0 - 1})

NextPvm ==
    \/ \E obs \in AgentObs : LearnStart(MaxBudget, obs)
    \/ \E motor \in MotorActions, resp \in VecEnvResponses :
           LearnIteration(motor, resp)
    \/ LearnReturn

SpecPvm == InitPvm /\ [][NextPvm]_all_vars

\* training schedule and checkpoints: every constructor argument, every
\* budget, fresh and resumed runs; learn runs to its end once called
InitLearn ==
    /\ Constructed({0}, {FALSE}, {0})
    /\ AgentConstructed(BatchSizes, LearningStarts, TrainFrequencies,
                        TargetNetworkFrequencies, EvalFrequencies)

NextLearn ==
    \/ \E budget \in 1 .. MaxBudget : LearnStart(budget, <<0, 1>>)
    \/ LearnIteration(0, [obs |-> <<1, 0>>, done |-> FALSE,
                          final_observation |-> <<1, 0>>])
    \/ LearnReturn
    \/ NewAgent

SpecLearn == InitLearn /\ [][NextLearn]_all_vars /\ WF_all_vars(NextLearn)

(***************************************************************************)
(* Properties                                                              *)
(***************************************************************************)
\* the last operation was a step / a step carried out as a pause
LastStep == ret.op = "step"
LastInfo == ret.info.step_info
LastPause == LastStep /\ LastInfo.pauses = 1

\* C1: with limit L, of L+1 pause actions issued on consecutive steps of one
\* episode the (L+1)-th returns truncated=True and the L before it return
\* truncated=False.
C1_TruncatedAtLimitPlusOne ==
    LastPause =>
        /\ pause_run <= consecutive_pause_limit => ~ret.truncated
        /\ pause_run = consecutive_pause_limit + 1 => ret.truncated

C3_FirstStepNeverPauses ==
    (LastStep /\ LastInfo.timestep = 0 /\ LastInfo.motor_action = pause_action)
        => /\ LastInfo.pauses = 0
           /\ Len(env_calls) = 1
           /\ env_calls[1].action # pause_action

\* C4: a step carried out as a pause (ordinary, no-action or over-limit) does
\* not call the base environment's step and leaves the stored full state and
\* the constructor arguments unchanged.
C4_PauseKeepsFullState ==
    [][(ret'.op = "step" /\ ret'.info.step_info.pauses = 1)
          => (state' = state /\ env_calls' = <<>> /\ UNCHANGED config)]_vars

C4_Witness ==
    /\ LastPause
    /\ LastInfo.prevented_pauses = 0 /\ LastInfo.no_action_pauses = 0
    /\ fov_loc # LastInfo.fov_loc
    /\ state = Frame(1)

\* C5 as stated: a pause step whose sensory action equals the current fov_loc
\* returns exactly the masked-action penalty constant as its reward.
C5_ExactPenalty ==
    (LastPause /\ LastInfo.sensory_action = LastInfo.fov_loc)
        => ret.reward = MASKED_ACTION_PENTALTY

\* C5 amended: a pause step whose sensory action equals the current fov_loc
\* returns the masked-action penalty constant minus saccade_cost_scale times
\* the EMMA time of the step's fovea displacement; with saccade_cost_scale = 0
\* that is the constant itself.
C5_PenaltyLessSaccadeCost ==
    (LastPause /\ LastInfo.sensory_action = LastInfo.fov_loc)
        => /\ ret.reward =
                 [pen |-> 1,
                  fx |-> 0 - saccade_cost_scale
                         * EMMA_fixation_time(VisualDegreeDistance(
                               fov_loc, LastInfo.fov_loc)).total]
           /\ saccade_cost_scale = 0 => ret.reward = MASKED_ACTION_PENTALTY

C5_Witness ==
    /\ LastPause
    /\ LastInfo.sensory_action = LastInfo.fov_loc
    /\ LastInfo.no_action_pauses = 1
    /\ saccade_cost_scale > 0
    /\ ret.reward.fx < 0

\* C6: a pause step not over the limit is a no-action pause
\* (no_action_pauses = 1, penalty reward) exactly when the step's fovea update
\* leaves fov_loc unchanged, in both sensory-action modes and for clipped
\* out-of-range actions; such a step returns done=False and truncated=False.
C6_NoActionIffFovUnchanged ==
    (LastPause /\ LastInfo.prevented_pauses = 0)
        => /\ LastInfo.no_action_pauses = 1 <=> fov_loc = LastInfo.fov_loc
           /\ LastInfo.no_action_pauses = 1
                 => (ret.reward.pen = 1 /\ ~ret.done /\ ~ret.truncated)

\* C7: a step whose motor action is not the pause index calls the base
\* environment's step exactly once, with that motor action, sets
\* consecutive_pauses to 0 and returns the base environment's done and
\* truncated flags.
C7_NormalStep ==
    (LastStep /\ LastInfo.motor_action # pause_action)
        => /\ Len(env_calls) = 1
           /\ env_calls[1].op = "step"
           /\ env_calls[1].action = LastInfo.motor_action
           /\ consecutive_pauses = 0
           /\ LastInfo.consecutive_pauses = 0
           /\ ret.done = env_calls[1].returned.done
           /\ ret.truncated = env_calls[1].returned.truncated

C7_Witness ==
    /\ LastStep
    /\ LastInfo.motor_action = 1
    /\ ret.info.episode_info.pauses >= 2
    /\ consecutive_pauses = 0
    /\ ret.truncated /\ ~ret.done

\* C8: on every step the returned reward is the branch reward (the base
\* environment's reward on a normal step, -pause_cost on an ordinary pause,
\* the penalty constant on a no-action or over-limit pause) minus
\* saccade_cost_scale times the EMMA time of the step's fovea displacement,
\* and the returned observation is the crop of the stored full state at the
\* updated fov_loc.
C8_RewardAndObservation ==
    LastStep =>
        LET branch ==
                IF LastInfo.pauses = 0
                THEN [pen |-> 0, fx |-> env_calls[1].returned.reward * RewardUnit]
                ELSE IF LastInfo.prevented_pauses = 1
                        \/ LastInfo.no_action_pauses = 1
                THEN MASKED_ACTION_PENTALTY
                ELSE [pen |-> 0, fx |-> 0 - pause_cost]
            time == EMMA_fixation_time(VisualDegreeDistance(
                        fov_loc, LastInfo.fov_loc)).total
        IN  /\ ret.reward = [pen |-> branch.pen,
                             fx |-> branch.fx - saccade_cost_scale * time]
            /\ ret.obs = _crop_observation(state, fov_loc)

C8_Witness ==
    /\ LastPause
    /\ LastInfo.prevented_pauses = 1
    /\ saccade_cost_scale > 0
    /\ fov_loc # LastInfo.fov_loc
    /\ ret.truncated

\* C9: in window mode, after reset() and after every _fov_step,
\* 0 <= fov_loc <= obs_size - fov_size on both axes, for every sensory action
\* in absolute and in relative mode.
C9_FovLocInRange ==
    (state # NoState /\ fov = "window") =>
        \A a \in {1, 2} : 0 <= fov_loc[a] /\ fov_loc[a] <= obs_size[a] - fov_size[a]

\* C10: in window mode the observation returned has the shape of the full
\* state; every pixel inside the fov_size window whose top-left corner is
\* fov_loc equals the full state's pixel and every pixel outside it is 0.
C10_WindowCrop ==
    (ret.op \in {"reset", "step"} /\ fov = "window") =>
        /\ DOMAIN ret.obs = Coords
        /\ \A i \in Coords :
              /\ DOMAIN ret.obs[i] = Coords
              /\ \A j \in Coords :
                    ret.obs[i][j] =
                        IF /\ fov_loc[1] <= i /\ i < fov_loc[1] + fov_size[1]
                           /\ fov_loc[2] <= j /\ j < fov_loc[2] + fov_size[2]
                        THEN state[i][j] ELSE 0

C12_EpisodeInfoSums ==
    [][/\ ret'.op = "reset" =>
            /\ episode_info'.reward = [pen |-> 0, fx |-> 0]
            /\ \A k \in {"raw_reward", "reward_wo_sugarl", "pauses",
                         "prevented_pauses", "no_action_pauses",
                         "saccade_cost"} : episode_info'[k] = 0
       /\ ret'.op = "step" =>
            /\ episode_info'.reward.pen
                   = episode_info.reward.pen + ret'.info.step_info.reward.pen
            /\ episode_info'.reward.fx
                   = episode_info.reward.fx + ret'.info.step_info.reward.fx
            /\ \A k \in {"raw_reward", "reward_wo_sugarl", "pauses",
                         "prevented_pauses", "no_action_pauses",
                         "saccade_cost"} :
                   episode_info'[k] = episode_info[k] + ret'.info.step_info[k]
            /\ ret'.info.episode_info = episode_info']_vars

C12_Witness ==
    /\ LastStep
    /\ timestep >= 2
    /\ episode_info.pauses = 2
    /\ episode_info.raw_reward > 0
    /\ episode_info.reward_wo_sugarl > episode_info.raw_reward
    /\ episode_info.saccade_cost > 0

(***************************************************************************)
(* Constructor arguments: every fov the constructor is given, pausing      *)
(* enabled and disabled                                                    *)
(***************************************************************************)
InitConfig ==
    /\ ConstructedAs({0}, BOOLEAN, {0}, {"window", ScriptFov}, BOOLEAN)
    /\ AgentIdle

NextConfig ==
    \/ Reset /\ UNCHANGED agent_vars
    \/ Steps(MotorActions, RunSensoryActions, FoveaSteps)
           /\ UNCHANGED agent_vars

SpecConfig == InitConfig /\ [][NextConfig]_vars

\* C19: constructing the wrapper with a fov other than "window", "gaussian"
\* or "exponential" fails in __init__, in absolute and in relative mode: no
\* wrapper with such a fov exists that can be reset or stepped.
C19_InvalidFovRejected ==
    fov \notin KnownFovTypes => (ret = InitRaised /\ state = NoState)

\* C20: with no_pauses = True the motor action space has exactly the base
\* environment's number of actions, every step calls the base environment's
\* step (none is carried out as a pause), and the pauses, no_action_pauses
\* and prevented_pauses counters stay 0.
C20_NoPausesNeverPauses ==
    no_pauses =>
        /\ Cardinality(MotorActions) = NumActions
        /\ episode_info.pauses = 0
        /\ episode_info.no_action_pauses = 0
        /\ episode_info.prevented_pauses = 0
        /\ LastStep =>
              /\ LastInfo.pauses = 0
              /\ Len(env_calls) = 1
              /\ env_calls[1].op = "step"
              /\ env_calls[1].action = LastInfo.motor_action

C20_Witness ==
    /\ no_pauses
    /\ LastStep
    /\ LastInfo.motor_action = NumActions - 1
    /\ LastInfo.sensory_action = LastInfo.fov_loc
    /\ timestep = 1

\* C13: in _step a pause motor action leaves the PVM buffer's length and its
\* older slots unchanged and makes the most recent slot the element-wise
\* maximum of its previous content and the new observation; any other motor
\* action appends the new observation.  Hence the number of entries appended
\* to the PVM buffer is 1 plus the number of non-pause steps.
C13_PvmPauseMerges ==
    /\ [][last'.op = "iteration" =>
            IF last'.motor = pause_action
            THEN /\ Len(pvm_buffer') = Len(pvm_buffer)
                 /\ \A k \in 1 .. (Len(pvm_buffer) - 1) :
                        pvm_buffer'[k] = pvm_buffer[k]
                 /\ \A i \in {1, 2} :
                        pvm_buffer'[Len(pvm_buffer)][i]
                            = IF pvm_buffer[Len(pvm_buffer)][i]
                                     >= last'.next_obs[i]
                              THEN pvm_buffer[Len(pvm_buffer)][i]
                              ELSE last'.next_obs[i]
                 /\ pvm_appends' = pvm_appends
            ELSE /\ pvm_buffer'[Len(pvm_buffer')] = last'.next_obs
                 /\ Len(pvm_buffer') = Min(Len(pvm_buffer) + 1, PvmStack)
                 /\ pvm_appends' = pvm_appends + 1]_all_vars
    /\ [](pc # "constructed" => pvm_appends = 1 + non_pause_steps)

C13_Witness ==
    /\ last.op = "iteration"
    /\ last.motor = pause_action
    /\ Len(pvm_buffer) = PvmStack
    /\ pvm_buffer[PvmStack] = <<1, 1>>
    /\ env_steps = 3
    /\ pvm_appends = 2

\* C14: in every run of learn, fresh or resumed from a checkpoint, train() is
\* not called while the replay buffer holds fewer than batch_size
\* transitions.
C14_TrainOnlyWithFullBatch ==
    (last.op = "iteration" /\ last.trained) => rb >= batch_size

\* C15: at a step with current_timestep <= learning_start the Q-network is
\* not updated and the target network is not copied, while every train()
\* call, also one before learning_start, updates the SFN.
C15_NoDqnBeforeLearningStart ==
    [][last'.op = "iteration" =>
           /\ current_timestep' <= learning_start =>
                  /\ q_network' = q_network
                  /\ target_network' = target_network
                  /\ ~last'.dqn /\ ~last'.copied
           /\ last'.trained => sfn' = sfn + 1]_all_vars

C15_Witness ==
    /\ last.op = "iteration"
    /\ last.trained
    /\ current_timestep = learning_start
    /\ sfn > 0
    /\ q_network = 0

\* C16: once Q-learning has started, the target network is overwritten with
\* the online network's parameters at every environment step that is a
\* multiple of target_network_frequency, whatever train_frequency and
\* target_network_frequency are; at other steps the target network's
\* parameters do not change.
C16_TargetCopiedEveryFrequency ==
    [][last'.op = "iteration" =>
           IF current_timestep' % target_network_frequency = 0
           THEN dqn_calls >= 1 => target_network' = q_network'
           ELSE target_network' = target_network]_all_vars

C18_CheckpointRoundTrip ==
    (last.op = "start" /\ last.loaded) =>
        \E s \in saved_states :
            /\ s.name = last.file
            /\ q_network = s.q
            /\ sfn = s.sfn
            /\ current_timestep = s.current_timestep

C18_Witness ==
    /\ last.op = "start"
    /\ last.loaded
    /\ runs = 2
    /\ q_network > 0
    /\ sfn > q_network
    /\ current_timestep = 3

\* C22: after a step carried out as a pause, consecutive_pauses is its
\* previous value plus one when the wrapper's immediately preceding step was a
\* pause, and 0 when the preceding step was not a pause or there was none;
\* after a step not carried out as a pause it is 0.
C22_CounterFollowsPrecedingStep ==
    [][ret'.op = "step" =>
          IF ret'.info.step_info.pauses = 1
          THEN /\ (ret.op = "step" /\ ret.info.step_info.pauses = 1)
                     => consecutive_pauses' = consecutive_pauses + 1
               /\ (ret.op = "step" /\ ret.info.step_info.pauses = 0)
                     => consecutive_pauses' = 0
               /\ ret = NoReturn => consecutive_pauses' = 0
          ELSE consecutive_pauses' = 0]_vars

\* C23: after reset() the pause bookkeeping is that of a fresh episode
\* (consecutive_pauses and prev_pause_action as after construction), so an
\* episode that pauses from its first pausing step on is truncated at the same
\* pause of the run in every episode: the one at which a newly built wrapper
\* truncates, pause number consecutive_pause_limit + 3.
C23_ResetRestoresPauseBookkeeping ==
    /\ ret.op = "reset" => (consecutive_pauses = 0 /\ prev_pause_action = 0)
    /\ LastPause => (ret.truncated <=> pause_run >= consecutive_pause_limit + 3)

\* C24: in learn with one environment, train() is invoked after the step that
\* brings current_timestep to t exactly when t > batch_size and
\* t % train_frequency = 0; no other step triggers training.
C24_TrainExactlyWhenDue ==
    [][last'.op = "iteration" =>
          /\ last'.trained <=> (/\ current_timestep' > batch_size
                                /\ current_timestep' % train_frequency = 0)
          /\ sfn' = IF last'.trained THEN sfn + 1 ELSE sfn]_all_vars

C24_Witness ==
    /\ last.op = "iteration"
    /\ last.trained
    /\ batch_size = 1
    /\ train_frequency = 2
    /\ current_timestep = 2
    /\ sfn = 1

\* C28: when learn has loaded a checkpoint, the parameters of the target
\* network equal the loaded parameters of the online Q-network.
C28_TargetEqualsLoadedQ ==
    (last.op = "start" /\ last.loaded) => target_network = q_network

\* C29: every learn(n) with n >= 1 evaluates at least once before it returns,
\* whatever batch_size and eval_frequency are, so that the out_paths it
\* returns is defined.
C29_LearnReturnsAfterEvaluation ==
    last.op = "return" => (out_paths_bound /\ pc = "returned")

\* C30: a training episode may end at any timestep, also before the first
\* train() call, without error: no pass of learn's loop raises out of
\* _log_episode, whose every field (sfn_loss among them) is set when read.
C30_EpisodeEndLogsWithoutError ==
    last.op # "log_episode_raised"

\* resuming: every run is learn(MaxBudget); a run may be stopped from outside
\* at any pass of the loop and followed by a new process on the same model
\* directory
InitResume ==
    /\ Constructed({0}, {FALSE}, {0})
    /\ AgentConstructedAs({1}, {0}, TrainFrequencies, {1}, EvalFrequencies,
                          ExplorationFractions, {NoData})

NextResume ==
    \/ LearnStart(MaxBudget, <<0, 1>>)
    \/ LearnIteration(0, [obs |-> <<1, 0>>, done |-> FALSE,
                          final_observation |-> <<1, 0>>])
    \/ LearnReturn
    \/ Interrupt
    \/ NewAgent

SpecResume == InitResume /\ [][NextResume]_all_vars

\* C27: a learn(n) that resumes from a checkpoint saved at step c of a run
\* started with the same n uses, at every step t >= c, the epsilon the
\* uninterrupted run would have used at step t, and stops at the same total
\* step count n.
C27_ResumedScheduleContinues ==
    loaded_timestep > 0 =>
        /\ last.op = "iteration" =>
               epsilon = linear_schedule(epsilon_interval[1],
                                         epsilon_interval[2],
                                         exploration_fraction * n_arg,
                                         current_timestep - n_envs)
        /\ last.op = "return" => current_timestep = n_arg

(***************************************************************************)
(* evaluate, step by step                                                  *)
(***************************************************************************)
\* self.n_evals, and the longest rollout the model follows
NumEvals == 2
MaxEvalSteps == 3

\* what env.step of the evaluation environment returns to _step: the episode
\* goes on, terminates (dones) or, on a pause beyond the wrapper's limit, is
\* truncated; after either end the vector environment starts a new episode
EvalEnvResponses(motor) ==
    {[obs |-> o, done |-> (end = "terminated"),
      truncated |-> (end = "truncated")] :
        o \in AgentObs,
        end \in IF motor = pause_action
                THEN {"none", "terminated", "truncated"}
                ELSE {"none", "terminated"}}

\* evaluate's loop over the episodes: a new environment is reset and its
\* observation appended to a new PVM buffer
EvaluateEpisode(obs) ==
    /\ pc = "evaluating"
    /\ ~evaluation.in_episode
    /\ evaluation.eval_ep < NumEvals
    /\ evaluation' = [evaluation EXCEPT !.in_episode = TRUE,
                                        !.eval_pvm_buffer = PvmAppend(<<>>, obs),
                                        !.steps = 0,
                                        !.episodes_ended = 0]
    /\ last' = [op |-> "evaluate_episode"]
    /\ UNCHANGED <<agent_config, pc, current_timestep, n_total, q_network,
                   target_network, sfn, rb, pvm_buffer, out_paths_bound,
                   model_dir, epsilon, sfn_loss, training_mode, dqn_vars, aux_vars,
                   rb_vars,
                   n_arg, loaded_timestep, env_steps, non_pause_steps,
                   pvm_appends, dqn_calls, saved_states, runs>>
    /\ UNCHANGED vars

\* one pass of "while not done": _step with eval=True on the evaluation
\* environment and buffer, done = dones[0]; when the loop is left the last
\* infos' final_info is recorded and, in the first evaluation episode, the
\* checkpoint is saved
EvaluateStep(motor, resp) ==
    /\ pc = "evaluating"
    /\ evaluation.in_episode
    /\ evaluation.steps < MaxEvalSteps
    /\ \E episodes \in {IF resp.done \/ resp.truncated
                        THEN evaluation.episodes_ended + 1
                        ELSE evaluation.episodes_ended} :
       \E buf \in {PvmAfterStep(evaluation.eval_pvm_buffer, motor, resp.obs)} :
       \E saving \in {resp.done /\ evaluation.eval_ep = 0} :
            /\ evaluation' =
                   IF resp.done
                   THEN [evaluation EXCEPT !.in_episode = FALSE,
                                           !.eval_pvm_buffer = buf,
                                           !.steps = @ + 1,
                                           !.episodes_ended = episodes,
                                           !.episode_infos = Append(@, episodes),
                                           !.eval_ep = @ + 1]
                   ELSE [evaluation EXCEPT !.eval_pvm_buffer = buf,
                                           !.steps = @ + 1,
                                           !.episodes_ended = episodes]
            /\ model_dir' = IF saving
                            THEN WriteCheckpoint(model_dir, sfn, q_network,
                                                 current_timestep)
                            ELSE model_dir
            /\ saved_states' = IF saving
                               THEN Snapshot(saved_states, sfn, q_network,
                                             current_timestep)
                               ELSE saved_states
            /\ last' = [op |-> "evaluate_step", motor |-> motor,
                        episode_ended |-> (resp.done \/ resp.truncated),
                        loop_left |-> resp.done,
                        recorded_episode |-> episodes]
    /\ UNCHANGED <<agent_config, pc, current_timestep, n_total, q_network,
                   target_network, sfn, rb, pvm_buffer, out_paths_bound,
                   epsilon, sfn_loss, training_mode, dqn_vars, aux_vars, rb_vars,
                   n_arg, loaded_timestep, env_steps, non_pause_steps,
                   pvm_appends, dqn_calls, runs>>
    /\ UNCHANGED vars

\* evaluate after its loop: the networks go back to training mode and learn
\* assigns out_paths from the value returned
EvaluateReturn ==
    /\ pc = "evaluating"
    /\ ~evaluation.in_episode
    /\ evaluation.eval_ep >= NumEvals
    /\ training_mode' = TrainingModeAfterEvaluate
    /\ out_paths_bound' = TRUE
    /\ evaluation' = NoEvaluation
    /\ pc' = "running"
    /\ last' = [op |-> "evaluated", episode_infos |-> evaluation.episode_infos]
    /\ UNCHANGED <<agent_config, current_timestep, n_total, q_network,
                   target_network, sfn, rb, pvm_buffer, model_dir,
                   epsilon, sfn_loss, dqn_vars, aux_vars, rb_vars,
                   n_arg, loaded_timestep, env_steps, non_pause_steps,
                   pvm_appends, dqn_calls, saved_states, runs>>
    /\ UNCHANGED vars

\* learn with its evaluations taken step by step: every motor action and
\* every response of the evaluation environment
InitEval ==
    /\ Constructed({0}, {FALSE}, {0})
    /\ AgentConstructed({1}, {0}, {1}, {1}, EvalFrequencies)

NextEval ==
    \/ \E budget \in 2 .. MaxBudget : LearnStart(budget, <<0, 1>>)
    \/ \E motor \in MotorActions :
           LearnIterationToEvaluate(motor, [obs |-> <<1, 0>>, done |-> FALSE,
                                            final_observation |-> <<1, 0>>])
    \/ \E obs \in AgentObs : EvaluateEpisode(obs)
    \/ \E motor \in {0, pause_action} :
           \E resp \in EvalEnvResponses(motor) : EvaluateStep(motor, resp)
    \/ EvaluateReturn
    \/ LearnReturn

SpecEval == InitEval /\ [][NextEval]_all_vars

\* C25: evaluate() is a separate rollout with the policy frozen: from its call
\* to its return current_timestep, the replay buffer, the training PVM buffer
\* and the parameters of q_network, target_network and sfn do not change (so
\* no train() runs), and on return both networks are in training mode.
C25_EvaluateLeavesTrainingState ==
    [][/\ pc = "evaluating" =>
              UNCHANGED <<current_timestep, rb, pvm_buffer, q_network,
                          target_network, sfn>>
       /\ (pc = "evaluating" /\ pc' # "evaluating") =>
              (training_mode'.q_network /\ training_mode'.sfn)]_all_vars

C25_Witness ==
    /\ last.op = "evaluated"
    /\ Len(last.episode_infos) = NumEvals
    /\ rb = 2
    /\ q_network = 1
    /\ Len(pvm_buffer) = 2
    /\ training_mode = TrainingModeNew

TdBatchSize == 2
\* self.gamma = 0.99, in thousandths
gamma == 990
\* sugarl_r_scale: none, and 4.0 * 1/200 (get_sugarl_reward_scale_atari)
SugarlScales == {0, 20}

\* a transition of the batch with what _train_sfn and the target network
\* gave for it
Transitions ==
    [reward : {0 - 1, 1}, done : {0, 1},
     observation_quality : {FractionUnit \div 2, FractionUnit},
     motor_target_max : {0, 2}, sensory_target_max : {1}]

\* rb.sample with train's observation_quality
Samples ==
    {[sugarl_r_scale |-> scale, transitions |-> batch] :
        scale \in SugarlScales, batch \in [1 .. TdBatchSize -> Transitions]}

\* gamma * (motor_target_max + sensory_target_max) * (1 - dones)
DiscountedTarget(tr) ==
    gamma * FractionUnit * (tr.motor_target_max + tr.sensory_target_max)
        * (1 - tr.done)

\* mutant of QualityPenalty: the penalty grows with the quality
QualityPenaltyOfQuality(quality, scale) == quality * scale

\* (1 - observation_quality) * self.sugarl_r_scale
QualityPenalty(quality, scale) == (FractionUnit - quality) * scale

td_target(tr, scale) ==
    tr.reward * FractionUnit * FractionUnit
        - QualityPenalty(tr.observation_quality, scale)
        + DiscountedTarget(tr)

original_td_target(tr) ==
    tr.reward * FractionUnit * FractionUnit + DiscountedTarget(tr)

\* _train_dqn up to the Q-network's prediction: both targets, element-wise
TrainDqnTargets ==
    /\ data # NoData
    /\ targets = NoTargets
    /\ targets' =
           [op |-> "targets",
            td_target |->
                [i \in DOMAIN data.transitions |->
                    td_target(data.transitions[i], data.sugarl_r_scale)],
            original_td_target |->
                [i \in DOMAIN data.transitions |->
                    original_td_target(data.transitions[i])]]
    /\ UNCHANGED <<agent_config, pc, current_timestep, n_total, q_network,
                   target_network, sfn, rb, pvm_buffer, out_paths_bound,
                   model_dir, epsilon, sfn_loss, eval_vars, data, rb_vars,
                   aux_vars, n_arg, loaded_timestep, env_steps, non_pause_steps,
                   pvm_appends, dqn_calls, saved_states, runs, last>>
    /\ UNCHANGED vars

\* the targets of every batch of TdBatchSize transitions
InitTd ==
    /\ Constructed({0}, {FALSE}, {0})
    /\ AgentConstructedAs({1}, {0}, {1}, {1}, {0 - 1}, {DefaultFraction},
                          Samples)

NextTd == TrainDqnTargets

SpecTd == InitTd /\ [][NextTd]_all_vars

\* C21: for every batch in which observation_quality is 1 for all
\* transitions, td_target equals original_td_target element-wise, whatever
\* sugarl_r_scale, the rewards, the done flags and the target network's
\* outputs are.
C21_FullQualityKeepsTarget ==
    (/\ targets.op = "targets"
     /\ \A i \in DOMAIN data.transitions :
            data.transitions[i].observation_quality = FractionUnit)
        => targets.td_target = targets.original_td_target

C21_Witness ==
    /\ targets.op = "targets"
    /\ data.sugarl_r_scale > 0
    /\ \A i \in DOMAIN data.transitions :
           data.transitions[i].observation_quality = FractionUnit
    /\ data.transitions[1].done = 0
    /\ data.transitions[2].done = 1
    /\ targets.td_target[1] = 1000000 + 2970000
    /\ targets.td_target[2] = targets.original_td_target[2]

(***************************************************************************)
(* The replay buffer's transitions and the sensory action set              *)
(***************************************************************************)
\* one learn call long enough for a transition to follow the end of an
\* episode: every motor action, every response of the environment
InitBuffer ==
    /\ Constructed({0}, {FALSE}, {0})
    /\ AgentConstructed({1}, {0}, {1}, {1}, {0 - 1})

NextBuffer ==
    \/ \E obs \in AgentObs : LearnStart(MaxBudget + 1, obs)
    \/ \E motor \in MotorActions, resp \in VecEnvResponses :
           LearnIteration(motor, resp)
    \/ LearnReturn

SpecBuffer == InitBuffer /\ [][NextBuffer]_all_vars

\* C31: every transition learn adds to the replay buffer has as observation
\* the next-observation of the transition added immediately before it, also
\* when that one ended an episode.
C31_TransitionsChain ==
    [][(rb' = rb + n_envs /\ last_transition.op = "add")
          => last_transition'.observations = last_transition.next_observations
      ]_all_vars

C31_Witness ==
    /\ last.op = "iteration"
    /\ last.follows_done
    /\ rb = 4
    /\ last_transition.observations # last_transition.next_observations
    /\ last_transition.observations = <<1, 1>>

\* the sides of the agent's observation and fovea the model draws from
MaxObsSide == 4
MaxFovSide == 2

\* every observation size that leaves room for every fovea, every fovea size
\* and every quantization (qx, qy) with 1 <= qx, qy <= obs_size - fov_size
SensoryConfigs ==
    UNION {{[obs_size |-> <<w, h>>, fov_size |-> f,
             quantization |-> <<qx, qy>>] :
               qx \in 1 .. (w - f), qy \in 1 .. (h - f)} :
           w \in (MaxFovSide + 1) .. MaxObsSide,
           h \in (MaxFovSide + 1) .. MaxObsSide,
           f \in 1 .. MaxFovSide}

\* every sensory action set: short learn calls that take every sensory action
InitSensory ==
    /\ Constructed({0}, {FALSE}, {0})
    /\ AgentBuilt({1}, {0}, {1}, {1}, {0 - 1}, {DefaultFraction}, {NoData},
                  SensoryConfigs)

NextSensory ==
    \/ LearnStart(1, <<0, 1>>)
    \/ LearnIteration(0, [obs |-> <<1, 0>>, done |-> FALSE,
                          final_observation |-> <<1, 0>>])
    \/ LearnReturn

SpecSensory == InitSensory /\ [][NextSensory]_all_vars

\* C32: for every quantization (qx, qy) with 1 <= qx, qy <= obs_size -
\* fov_size the sensory action set has exactly qx * qy distinct entries, each
\* within [0, obs_size - fov_size] on both axes, and the index a step stores
\* in the replay buffer is the index of the coordinates it sent to the
\* environment.
C32_SensoryActionSet ==
    /\ Len(sensory_action_set)
           = sensory_config.quantization[1] * sensory_config.quantization[2]
    /\ \A i, j \in DOMAIN sensory_action_set :
           sensory_action_set[i] = sensory_action_set[j] => i = j
    /\ \A i \in DOMAIN sensory_action_set : \A axis \in 1 .. 2 :
           /\ sensory_action_set[i][axis] >= 0
           /\ sensory_action_set[i][axis]
                  <= max_sensory_action_step(sensory_config)[axis]
    /\ last.op = "iteration" =>
           sensory_action_set[last_transition.sensory_actions]
               = last.sent.sensory_action

C32_Witness ==
    /\ last.op = "iteration"
    /\ sensory_config.obs_size = <<4, 4>>
    /\ sensory_config.fov_size = 1
    /\ sensory_config.quantization = <<2, 3>>
    /\ last_transition.sensory_actions = 6
    /\ last.sent.sensory_action = <<1, 2>>

(***************************************************************************)
(* The gaussian and the exponential fovea                                  *)
(***************************************************************************)
\* the sensory actions of the mask modes: every location up to obs_size
MaskSensoryActions == (0 .. ObsSize) \X (0 .. ObsSize)

InitMask ==
    /\ ConstructedAs({0}, {FALSE}, {0}, {"gaussian", "exponential"}, {FALSE})
    /\ AgentIdle

NextMask ==
    \/ Reset /\ UNCHANGED agent_vars
    \/ Steps({0}, MaskSensoryActions, FoveaSteps) /\ UNCHANGED agent_vars

SpecMask == InitMask /\ [][NextMask]_vars

\* C33: in the gaussian and exponential modes the mask _crop_observation
\* computes has its maximum at the pixel indexed by fov_loc, for every fov_loc
\* the wrapper holds: mask[fov_loc[0], fov_loc[1]] == max(mask).
C33_MaskPeaksAtFovLoc ==
    (fov \in {"gaussian", "exponential"} /\ ret.op \in {"reset", "step"})
        => /\ fov_loc[1] \in Coords
           /\ fov_loc[2] \in Coords
           /\ Mask(fov_loc)[fov_loc[1]][fov_loc[2]] = ArrayMax(Mask(fov_loc))

(***************************************************************************)
(* Constructor arguments: the fovea sizes                                  *)
(***************************************************************************)
\* args.fov_size: the usual one, one as large as the observation, and sizes
\* that are zero or negative on an axis
FovSizes ==
    {<<FovSize, FovSize>>, <<ObsSize, FovSize>>, <<0, 0>>, <<0, FovSize>>,
     <<FovSize, 0>>, <<0 - 1, FovSize>>}

InitSize ==
    /\ ConstructedWith({0}, {FALSE}, {0}, {"window", "gaussian"}, {FALSE},
                       FovSizes)
    /\ AgentIdle

NextSize ==
    \/ Reset /\ UNCHANGED agent_vars
    \/ Steps({0}, RunSensoryActions, FoveaSteps) /\ UNCHANGED agent_vars

SpecSize == InitSize /\ [][NextSize]_vars

\* C34: constructing the wrapper with a fovea size that is zero or negative
\* on either axis fails in __init__: no wrapper with such a fovea exists that
\* can be reset or stepped, and no gaussian mask is computed with sigma = 0.
C34_NonPositiveFovSizeRejected ==
    (fov_size[1] <= 0 \/ fov_size[2] <= 0)
        => (ret = InitRaised /\ state = NoState)

(***************************************************************************)
(* EMMA_fixation_time (common/utils.py) on its own                         *)
(***************************************************************************)
\* the largest distance, in tenths of a degree
MaxDist == 100
\* the distances EMMA_fixation_time is called with, centi-degrees
Distances == {10 * d : d \in 0 .. MaxDist}

InitEmma ==
    /\ Constructed({0}, {FALSE}, {0})
    /\ AgentNeverRun
    /\ emma_call \in {[op |-> "call", dist |-> d] : d \in Distances}
    /\ sfn_call = NoCall
    /\ legacy_env = NoCall
    /\ legacy_last = NoCall

\* the call returns (total_time, moved)
EmmaReturn ==
    /\ emma_call.op = "call"
    /\ emma_call' = [op |-> "return", dist |-> emma_call.dist,
                     total_time |-> EMMA_fixation_time(emma_call.dist).total,
                     moved |-> EMMA_fixation_time(emma_call.dist).moved]
    /\ UNCHANGED <<vars, agent_state, sfn_call, legacy_env, legacy_last>>

NextEmma == EmmaReturn

SpecEmma == InitEmma /\ [][NextEmma]_all_vars

\* C35: with t_enc = K * -ln(freq) * exp(k * d), EMMA_fixation_time(d)
\* returns moved = False and the total time t_enc when t_enc < t_prep;
\* otherwise moved = True with the total time t_sacc = t_prep +
\* execution_time + saccade_scaling * d when t_enc <= t_sacc, and
\* t_sacc + (1 - t_sacc / t_enc) * (k * -ln(freq)) when t_enc > t_sacc.
C35_EmmaCases ==
    emma_call.op = "return" =>
        LET d == emma_call.dist
            t_enc == MulFx(ExpHeld((EMMA_k * d) \div 100),
                           (EMMA_K * EMMA_neg_log_freq) \div FxScale)
            t_sacc == EMMA_t_prep + EMMA_execution_time
                          + (EMMA_saccade_scaling * d) \div 100
            rest == ((FxScale - (t_sacc * FxScale) \div t_enc)
                        * ((EMMA_k * EMMA_neg_log_freq) \div 100)) \div FxScale
        IN  /\ t_enc < EMMA_t_prep
                => (~emma_call.moved /\ emma_call.total_time = t_enc)
            /\ (t_enc >= EMMA_t_prep /\ t_enc <= t_sacc)
                => (emma_call.moved /\ emma_call.total_time = t_sacc)
            /\ (t_enc >= EMMA_t_prep /\ t_enc > t_sacc)
                => (emma_call.moved /\ emma_call.total_time = t_sacc + rest)

\* a call whose encoding time outlasts the saccade: d = 10 degrees
C35_Witness ==
    /\ emma_call.op = "return"
    /\ emma_call.dist = 1000
    /\ emma_call.moved
    /\ emma_call.total_time > EMMA_t_prep + EMMA_execution_time
                                  + EMMA_saccade_scaling * 10

(***************************************************************************)
(* _train_sfn: the observation quality of a batch                          *)
(***************************************************************************)
\* the motor actions the SFN predicts: the base ones and the pause
SfnActions == 1 .. (NumActions + 1)
\* an SFN output for one action, scale FxScale: 0.0 or 1.0
Logits == {0, FxScale}
\* a batch: pred_motor_actions of shape [batch, actions] and the motor action
\* each transition took
SfnBatches ==
    [pred_motor_actions : [1 .. TdBatchSize -> [SfnActions -> Logits]],
     motor_actions : [1 .. TdBatchSize -> SfnActions]]

RECURSIVE SumOver(_, _)
\* the sum of f over the set S of its arguments
SumOver(f, S) ==
    IF S = {} THEN 0
    ELSE LET x == CHOOSE y \in S : TRUE
         IN  f[x] + SumOver(f, S \ {x})

\* F.softmax(pred, dim=0): every column is normalised over the batch,
\* in thousandths
SoftmaxDim0(pred) ==
    [i \in DOMAIN pred |-> [a \in SfnActions |->
        (ExpFx(pred[i][a]) * FractionUnit)
            \div SumOver([b \in DOMAIN pred |-> ExpFx(pred[b][a])], DOMAIN pred)]]

\* observation_quality = F.softmax(pred_motor_actions, dim=0)
\*                           .gather(1, data.motor_actions)
ObservationQuality(batch) ==
    [i \in DOMAIN batch.pred_motor_actions |->
        SoftmaxDim0(batch.pred_motor_actions)[i][batch.motor_actions[i]]]

InitSfn ==
    /\ Constructed({0}, {FALSE}, {0})
    /\ AgentNeverRun
    /\ sfn_call \in {[op |-> "call", batch |-> b] : b \in SfnBatches}
    /\ emma_call = NoCall
    /\ legacy_env = NoCall
    /\ legacy_last = NoCall

\* _train_sfn: one optimizer step of the SFN on the batch's loss, and the
\* quality of every transition of the batch
TrainSfn ==
    /\ sfn_call.op = "call"
    /\ sfn_loss' = "set"
    /\ sfn' = sfn + 1
    /\ sfn_call' = [op |-> "return", batch |-> sfn_call.batch,
                    observation_quality |-> ObservationQuality(sfn_call.batch)]
    /\ UNCHANGED <<agent_config, rb_vars, eval_vars, dqn_vars, pc,
                   current_timestep, n_total, q_network, target_network, rb,
                   pvm_buffer, out_paths_bound, model_dir, epsilon, n_arg,
                   loaded_timestep, env_steps, non_pause_steps, pvm_appends,
                   dqn_calls, saved_states, runs, last, emma_call, legacy_env,
                   legacy_last>>
    /\ UNCHANGED vars

NextSfn == TrainSfn

SpecSfn == InitSfn /\ [][NextSfn]_all_vars

\* C36: the observation quality _train_sfn returns for a transition is the
\* softmax probability, over the motor action set, of the motor action that
\* transition took: a value in [0, 1] that depends only on that transition's
\* own SFN output, not on the other transitions of the batch.
C36_QualityIsOwnSoftmax ==
    sfn_call.op = "return" =>
        \A i \in DOMAIN sfn_call.observation_quality :
            LET own == sfn_call.batch.pred_motor_actions[i]
                taken == sfn_call.batch.motor_actions[i]
                quality == sfn_call.observation_quality[i]
            IN  /\ 0 <= quality /\ quality <= FractionUnit
                /\ quality = (ExpFx(own[taken]) * FractionUnit)
                       \div SumOver([a \in SfnActions |-> ExpFx(own[a])],
                                    SfnActions)

(***************************************************************************)
(* The wrappers of common/pauseable_env.py: PauseableFixedFovealEnv and    *)
(* SlowableFixedFovealEnv.  Their attributes are the fields of legacy_env; *)
(* the fovea and the record buffer, which no pause decision reads, are     *)
(* left out.  A step's recursive calls of step are unrolled.               *)
(***************************************************************************)
\* steps of one wrapper that are followed
MaxLegacySteps == 5
\* successive_pause_limit = 20, the default SlowableFixedFovealEnv builds with
DefaultSuccessiveLimit == 20
\* "self.prevented_pauses > 50"
PreventedPausesCap == 50
\* SLOWED_FRAME_RATE = 20: a pause becomes NOOP from 1000 / 20 ms on
SLOWED_FRAME_RATE == 20
\* "self.ms_since_motor_step += 20"
SaccadeMs == 20

\* action["motor"]: the base environment's actions and the pause index,
\* len(self.env.actions)
LegacyPause == NumActions
LegacyMotorActions == 0 .. LegacyPause

\* the attributes __init__ sets; has_state tells whether self.state resolves
\* (the wrapper sets it in its first motor step; before, only the wrapped
\* environment can lend one)
LegacyEnvNew(cls, limit, lent) ==
    [cls |-> cls, successive_pause_limit |-> limit, pause_action |-> FALSE,
     n_pauses |-> 0, successive_pauses |-> 0, prevented_pauses |-> 0,
     ep_len |-> 0, has_state |-> lent, ms_since_motor_step |-> 0]

NoLegacyStep ==
    [op |-> "init", steps |-> 0, pause_run |-> 0, ms_elapsed |-> 0]

\* PauseableFixedFovealEnv.step on the attributes e: `random` is the motor
\* action sampled when the pause is not allowed, `done` what the base
\* environment answers when it is stepped
PauseableStepOf(e, motor, random, done) ==
    LET pause == motor = LegacyPause
        \* "if not hasattr(self, 'state')"
        first == pause /\ ~e.has_state
        prevented ==
            /\ pause /\ e.has_state
            /\ \/ e.prevented_pauses > PreventedPausesCap
               \/ e.successive_pauses > e.successive_pause_limit
        paused == pause /\ ~first /\ ~prevented
        ends == ~paused /\ done
        counted == IF prevented THEN e.prevented_pauses + 1
                   ELSE e.prevented_pauses
        pauses == IF paused THEN e.n_pauses + 1 ELSE e.n_pauses
    IN  [env |-> [e EXCEPT
                    !.pause_action = paused,
                    !.successive_pauses =
                        IF paused /\ e.pause_action THEN @ + 1 ELSE 0,
                    !.n_pauses = IF ends THEN 0 ELSE pauses,
                    !.prevented_pauses = IF ends THEN 0 ELSE counted,
                    !.ep_len = @ + 1,
                    !.has_state = (@ \/ ~paused)],
         executed |-> IF first \/ prevented THEN random ELSE motor,
         paused |-> paused, prevented |-> prevented, first |-> first,
         slowed |-> FALSE, done |-> ends,
         info |-> [n_pauses |-> pauses, prevented_pauses |-> counted]]

\* SlowableFixedFovealEnv.step where self.state resolves
SlowableStepOf(e, motor, random, done) ==
    LET slowed ==
            /\ motor = LegacyPause
            /\ e.ms_since_motor_step * SLOWED_FRAME_RATE >= 1000
        out == PauseableStepOf(e, IF slowed THEN 0 ELSE motor, random, done)
    IN  [out EXCEPT !.slowed = slowed,
                    !.env.ms_since_motor_step = @ + SaccadeMs]

\* the motor actions a replaced pause can become: np.random.randint(1, n) on
\* the first step, the non-pause samples of the motor space otherwise
LegacySamples(e) ==
    IF e.has_state THEN 0 .. (NumActions - 1) ELSE 1 .. (NumActions - 1)

\* step of either class. SlowableFixedFovealEnv reads self.state before
\* anything else when a pause is requested: AttributeError where it does not
\* resolve
LegacyStep(motor, random, done) ==
    /\ legacy_env # NoCall
    /\ legacy_last.steps < MaxLegacySteps
    /\ random \in LegacySamples(legacy_env)
    /\ IF /\ legacy_env.cls = "SlowableFixedFovealEnv"
          /\ motor = LegacyPause
          /\ ~legacy_env.has_state
       THEN /\ legacy_env' = legacy_env
            /\ legacy_last' = [op |-> "raised", steps |-> legacy_last.steps + 1,
                               pause_run |-> legacy_last.pause_run,
                               ms_elapsed |-> legacy_last.ms_elapsed]
       ELSE LET out == IF legacy_env.cls = "SlowableFixedFovealEnv"
                       THEN SlowableStepOf(legacy_env, motor, random, done)
                       ELSE PauseableStepOf(legacy_env, motor, random, done)
            IN  /\ legacy_env' = out.env
                /\ legacy_last' =
                       [op |-> "step", requested |-> motor,
                        executed |-> out.executed, paused |-> out.paused,
                        prevented |-> out.prevented, first |-> out.first,
                        slowed |-> out.slowed, done |-> out.done,
                        info |-> out.info,
                        prevented_before |-> legacy_env.prevented_pauses,
                        steps |-> legacy_last.steps + 1,
                        \* pauses carried out in a row, this one included
                        pause_run |-> IF out.paused
                                      THEN legacy_last.pause_run + 1 ELSE 0,
                        \* simulated time since the last motor step when
                        \* the action was requested, and after this step
                        ms_before |-> legacy_last.ms_elapsed,
                        ms_elapsed |-> IF out.paused
                                       THEN legacy_last.ms_elapsed + SaccadeMs
                                       ELSE SaccadeMs]
    /\ UNCHANGED <<vars, agent_state, sfn_call, emma_call>>

\* reset: a new episode of the base environment; the pause counters stay
LegacyReset ==
    /\ legacy_env # NoCall
    /\ legacy_last.op \in {"init", "step"}
    /\ legacy_env' = [legacy_env EXCEPT !.ep_len = 0]
    /\ legacy_last' = [op |-> "reset", steps |-> legacy_last.steps,
                       pause_run |-> legacy_last.pause_run,
                       ms_elapsed |-> legacy_last.ms_elapsed]
    /\ UNCHANGED <<vars, agent_state, sfn_call, emma_call>>

InitLegacyOf(classes, limits) ==
    /\ Constructed({0}, {FALSE}, {0})
    /\ AgentNeverRun
    /\ sfn_call = NoCall
    /\ emma_call = NoCall
    /\ legacy_env \in {LegacyEnvNew(cls, limit, lent) :
                          cls \in classes, limit \in limits, lent \in BOOLEAN}
    /\ legacy_last = NoLegacyStep

NextLegacy ==
    \/ \E motor \in LegacyMotorActions, random \in 0 .. (NumActions - 1),
          done \in BOOLEAN : LegacyStep(motor, random, done)
    \/ LegacyReset

InitLegacy == InitLegacyOf({"PauseableFixedFovealEnv"}, 0 .. MaxLimit)
SpecLegacy == InitLegacy /\ [][NextLegacy]_all_vars

InitSlowable ==
    InitLegacyOf({"SlowableFixedFovealEnv"}, {DefaultSuccessiveLimit})
SpecSlowable == InitSlowable /\ [][NextLegacy]_all_vars

\* C37: with the wrapper of common/pauseable_env.py the agent makes at most
\* successive_pause_limit successive pauses; a pause requested beyond the
\* limit is replaced by a sampled non-pause motor action, which is executed
\* in the base environment, and prevented_pauses is incremented by 1.
C37_SuccessivePausesLimited ==
    legacy_last.op = "step" =>
        /\ legacy_last.pause_run <= legacy_env.successive_pause_limit
        /\ legacy_last.prevented =>
              /\ legacy_last.executed \in 0 .. (NumActions - 1)
              /\ ~legacy_last.paused
              /\ legacy_last.info.prevented_pauses
                     = legacy_last.prevented_before + 1

\* C38: SlowableFixedFovealEnv replaces a pause by the NOOP motor action
\* (index 0) exactly when at least 50 ms of simulated time, 20 ms per step,
\* have passed since the last motor (non-pause) step; a pause requested
\* sooner is carried out as a pause.
C38_PauseSlowedAfter50Ms ==
    (legacy_last.op = "step" /\ legacy_last.requested = LegacyPause) =>
        /\ legacy_last.slowed
              <=> legacy_last.ms_before * SLOWED_FRAME_RATE >= 1000
        /\ legacy_last.slowed
              => (legacy_last.executed = 0 /\ ~legacy_last.paused)
        /\ ~legacy_last.slowed => legacy_last.paused

=============================================================================
